---- MODULE Spec2Model ----
(***************************************************************************)
(* oqbridge: tiered query proxy between a hot store (OpenSearch) and a     *)
(* cold store (Quickwit).  The module models the proxy handler             *)
(* (ServeHTTP / handleSearch / handleFanoutSearch / handleMSearch), the    *)
(* tier router, the fan-out planner and the response merger.               *)
(*                                                                         *)
(* Time is counted in whole days.  JSON values are tagged records.         *)
(***************************************************************************)
EXTENDS Integers, Sequences, FiniteSets, TLC

VARIABLES
    now,      \* the wall clock (time.Now), in days
    pc,       \* position of the request handler
    req,      \* the client request being served
    target,   \* routing decision of handleSearch
    plan,     \* fanoutPlan of the request (planFanout result)
    hotLeg,   \* hot leg of handleFanoutSearch: (hotResp, hotErr)
    coldLeg,  \* cold leg of handleFanoutSearch: (coldResp, coldErr)
    calls,    \* outbound HTTP calls made for this request, in order
    resp,     \* what the proxy wrote to the client
    ms,       \* handleMSearch locals: needsCold, entry cursor, out
    fpc,      \* the router applied as a function: "off" | "call" | "routed"
    fin,      \* its input: body, index list, clock
    fout,     \* its results
    mig,      \* each migrator process: where its MigrateIndex run is, and its locals
    store,    \* the coordination documents of an index: checkpoint, watermark, lock
    wk,       \* the locals of each migrateSlice worker of a run
    acq,      \* each lock client: where its Acquire call is, and what it read
    docs      \* the documents of an index in the hot store, and those ingested into the cold store

vars == <<now, pc, req, target, plan, hotLeg, coldLeg, calls, resp, ms, fpc, fin, fout,
          mig, store, wk, acq, docs>>

----------------------------------------------------------------------------
(* Bounds of the model *)

MaxTime == 4        \* timestamps range over 0..MaxTime
HotDays == 2        \* retention.days, scaled down
MaxIdx == 2         \* longest index list of a request
MaxEntries == 2     \* most header/body pairs of an msearch
MaxPage == 2        \* largest from and size of a paginated request
MaxHits == 2        \* most hits in a backend response of the merge inputs

Times == 0..MaxTime

None == [k |-> "none"]

----------------------------------------------------------------------------
(* Time-range extraction: util.ExtractTimeRange *)

Abs(t) == [k |-> "abs", t |-> t]       \* an absolute date or epoch-millis bound
Rel(d) == [k |-> "rel", d |-> d]       \* the date-math string "now-<d>d"
BadBound == [k |-> "bad"]              \* a string no layout parses

\* a, unless it is nil: then b
OrElse(a, b) == IF a # None THEN a ELSE b

\* parseNowDateMath: "now-<d>d" resolved against the clock at parse time.
parseNowDateMath(v, clock) ==
    IF v.k = "rel" THEN Abs(clock - v.d) ELSE None

\* parseTimeValue: date math first, then the absolute layouts / epoch millis.
parseTimeValue(v, clock) ==
    OrElse(parseNowDateMath(v, clock), IF v.k = "abs" THEN v ELSE None)

\* A range clause {"range": {field: {gte: lo, lte: hi}}}; lo / hi are None when
\* the key is absent.
Clause(f, lo, hi) == [field |-> f, lo |-> lo, hi |-> hi]

\* one bound of parseRangeClause: nil when the key is absent or does not parse
boundOf(v, clock) == IF v = None THEN None ELSE parseTimeValue(v, clock)

\* the TimeRange parseRangeClause returns: nil when neither bound is set
TimeRange(from, to) ==
    IF from = None /\ to = None THEN None
    ELSE [k |-> "range", From |-> from, To |-> to]

\* parseRangeClause: nil when the clause is on another field
parseRangeClause(c, field, clock) ==
    IF c.field # field THEN None
    ELSE TimeRange(boundOf(c.lo, clock), boundOf(c.hi, clock))

RECURSIVE firstRange(_, _, _)
\* the loop over the clauses of bool.filter then bool.must: first match wins
firstRange(clauses, field, clock) ==
    IF clauses = <<>> THEN None
    ELSE OrElse(parseRangeClause(Head(clauses), field, clock),
                firstRange(Tail(clauses), field, clock))

\* the part of ExtractTimeRange below the "query" key: query is
\* [range: None | clause, hasBool: BOOLEAN, filter: Seq(clause), must: Seq(clause)]
extractFromQuery(q, field, clock) ==
    OrElse(IF q.range = None THEN None ELSE parseRangeClause(q.range, field, clock),
           IF ~q.hasBool THEN None ELSE firstRange(q.filter \o q.must, field, clock))

\* ExtractTimeRange(body, timestampField); body.query is None without a "query" key
ExtractTimeRange(body, field, clock) ==
    IF ~body.json THEN None
    ELSE IF body.query = None THEN None
    ELSE extractFromQuery(body.query, field, clock)

----------------------------------------------------------------------------
(* Tier router: Router.Route and Proxy.routeForIndices *)

Cutoff(clock) == clock - HotDays

\* the last lines of Route: the decision for the two flags
decide(hasHot, hasCold) ==
    IF hasHot /\ hasCold THEN "both"
    ELSE IF hasCold THEN "cold" ELSE "hot"

routeOf_BoundaryCold(tr, cutoff) ==
    IF tr = None THEN "both"
    ELSE IF tr.From # None /\ tr.To # None
    THEN IF tr.To.t <= cutoff THEN decide(FALSE, TRUE)
         ELSE IF tr.From.t > cutoff THEN decide(TRUE, FALSE)
         ELSE decide(TRUE, TRUE)
    ELSE IF tr.From # None
    THEN IF tr.From.t <= cutoff THEN decide(TRUE, TRUE) ELSE decide(TRUE, FALSE)
    ELSE IF tr.To.t <= cutoff THEN decide(FALSE, TRUE) ELSE decide(TRUE, TRUE)

\* the body of Route once the range is extracted and the cutoff computed
routeOf(tr, cutoff) ==
    IF tr = None THEN "both"
    ELSE IF tr.From # None /\ tr.To # None
    THEN IF tr.To.t < cutoff THEN decide(FALSE, TRUE)
         ELSE IF tr.From.t > cutoff \/ tr.From.t = cutoff THEN decide(TRUE, FALSE)
         ELSE decide(TRUE, TRUE)
    ELSE IF tr.From # None
    THEN IF tr.From.t < cutoff THEN decide(TRUE, TRUE) ELSE decide(TRUE, FALSE)
    ELSE IF tr.To.t < cutoff THEN decide(FALSE, TRUE) ELSE decide(TRUE, TRUE)

\* Router.Route(body, timestampField) with time.Now() = clock
Route(body, field, clock) ==
    routeOf(ExtractTimeRange(body, field, clock), Cutoff(clock))

\* Config.TimestampFieldForIndex: per-index override, else the global default.
\* The configuration of the model overrides the field of index "events".
TimestampFieldForIndex(index) ==
    IF index = "events" THEN "created_at" ELSE "@timestamp"

RECURSIVE routeLoop(_, _, _, _)
\* the loop of routeForIndices after the first index set `tgt`
routeLoop(body, rest, tgt, clock) ==
    IF rest = <<>> THEN tgt
    ELSE IF Route(body, TimestampFieldForIndex(Head(rest)), clock) # tgt THEN "both"
    ELSE routeLoop(body, Tail(rest), tgt, clock)

routeForIndices_FirstOnly(body, indices, clock) ==
    IF indices = <<>> THEN "both"
    ELSE Route(body, TimestampFieldForIndex(Head(indices)), clock)

\* Proxy.routeForIndices(body, indices)
routeForIndices(body, indices, clock) ==
    IF indices = <<>> THEN "both"
    ELSE routeLoop(body, Tail(indices),
                   Route(body, TimestampFieldForIndex(Head(indices)), clock), clock)

----------------------------------------------------------------------------
(* Fan-out planner: planFanout, getInt, parseScoreSort *)

DefaultSize == 10

JStr(s) == [k |-> "str", s |-> s]
JNum(n) == [k |-> "num", n |-> n]
JNull == [k |-> "null"]
JList(items) == [k |-> "list", items |-> items]
JObj(m) == [k |-> "obj", m |-> m]      \* m: a function from keys to JSON values

\* getInt(m, key, def): the number when the key holds one, def otherwise
getInt(v, def) ==
    IF v = None THEN def
    ELSE IF v.k = "num" THEN v.n
    ELSE def

Sort(asc, ok) == [asc |-> asc, ok |-> ok]

\* parseScoreSort on the value of the "_score" key
parseScoreOrder(vv) ==
    IF vv.k = "str" THEN Sort(vv.s = "asc", TRUE)
    ELSE IF vv.k = "obj"
    THEN IF "order" \in DOMAIN vv.m /\ vv.m["order"].k = "str"
         THEN Sort(vv.m["order"].s = "asc", TRUE)
         ELSE Sort(FALSE, TRUE)
    ELSE Sort(FALSE, TRUE)

\* the map[string]any case of parseScoreSort
parseScoreSortObj(m) ==
    IF Cardinality(DOMAIN m) # 1 THEN Sort(FALSE, FALSE)
    ELSE IF "_score" \notin DOMAIN m THEN Sort(FALSE, FALSE)
    ELSE parseScoreOrder(m["_score"])

RECURSIVE parseScoreSort(_)
\* parseScoreSort(sortVal): (scoreAsc, ok).  An absent key and JSON null are nil.
parseScoreSort(v) ==
    IF v = None \/ v.k = "null" THEN Sort(FALSE, TRUE)
    ELSE IF v.k = "str" THEN Sort(FALSE, v.s = "_score")
    ELSE IF v.k = "list"
         THEN IF Len(v.items) = 0 THEN Sort(FALSE, TRUE)
              ELSE IF Len(v.items) # 1 THEN Sort(FALSE, FALSE)
              ELSE parseScoreSort(v.items[1])
    ELSE IF v.k = "obj" THEN parseScoreSortObj(v.m)
    ELSE Sort(FALSE, FALSE)

MergeOptions(from, size, asc, paginate) ==
    [From |-> from, Size |-> size, ScoreAsc |-> asc, Paginate |-> paginate]

Plan(err, body, merge) == [err |-> err, Body |-> body, Merge |-> merge]

\* the plan planFanout starts from: the body as it is, no pagination
DefaultPlan(err, body) == Plan(err, body, MergeOptions(0, DefaultSize, FALSE, FALSE))

ClampNeg(n) == IF n < 0 THEN 0 ELSE n

needOf_SizeOnly(from, size) == size

\* need: how many hits each backend is asked for
needOf(from, size) ==
    IF size = 0 THEN 0
    ELSE IF size > 0 /\ from > 0 THEN from + size
    ELSE size

planWith_NoSortCheck(body, from, size, srt) ==
    Plan("", [body EXCEPT !.from = JNum(0), !.size = JNum(needOf(from, size))],
         MergeOptions(from, size, srt.asc, TRUE))

\* planFanout once from, size and the sort are read from the decoded body
planWith(body, from, size, srt) ==
    IF ~srt.ok THEN DefaultPlan("explicit sort", body)
    ELSE IF body.search_after THEN DefaultPlan("search_after", body)
    ELSE IF body.pit THEN DefaultPlan("pit", body)
    ELSE Plan("", [body EXCEPT !.from = JNum(0), !.size = JNum(needOf(from, size))],
              MergeOptions(from, size, srt.asc, TRUE))

\* planFanout(body): the plan, with err = "" when the body is accepted
planFanout(body) ==
    IF ~body.json THEN DefaultPlan("", body)
    ELSE planWith(body, ClampNeg(getInt(body.from, 0)),
                  ClampNeg(getInt(body.size, DefaultSize)), parseScoreSort(body.sort))

----------------------------------------------------------------------------
(* Response merger: MergeSearchResponses, MergeSearchResponsesWithOptions *)

\* A hit: its _score (None when the key is missing) and where it came from.
Hit(score, src) == [score |-> score, src |-> src]

\* extractScore: a hit without _score counts as 0
extractScore(h) == IF h.score = None THEN 0 ELSE h.score.n

\* The "aggregations" of a response: NoAggs when the key is absent (a raw message
\* of length 0), else a JSON value.  Panic is not a value: it marks that the
\* merge did not return (a write to a nil map).
NoAggs == [k |-> "absent"]
Panic == [k |-> "panic"]

\* json.Unmarshal into a map succeeds for an object and for null
DecodesAsMap(v) == v.k \in {"obj", "null"}

\* the keys of the decoded map; null decodes to the nil map
KeysOf(v) == IF v.k = "obj" THEN DOMAIN v.m ELSE {}

\* the loop of mergeAggregations and json.Marshal(hotMap), once both decoded
mergeMaps(hot, cold) ==
    IF hot.k = "null"
    THEN IF KeysOf(cold) # {} THEN Panic ELSE JNull
    ELSE JObj([key \in KeysOf(hot) \cup KeysOf(cold) |->
                 IF key \in KeysOf(hot) THEN hot.m[key] ELSE cold.m[key]])

\* mergeAggregations(hot, cold)
mergeAggregations(hot, cold) ==
    IF hot = NoAggs THEN cold
    ELSE IF cold = NoAggs THEN hot
    ELSE IF ~DecodesAsMap(hot) \/ ~DecodesAsMap(cold) THEN hot
    ELSE mergeMaps(hot, cold)

Response(value, relation, maxScore, hits) ==
    [k |-> "resp", total |-> [value |-> value, relation |-> relation],
     maxScore |-> maxScore, hits |-> hits, aggs |-> NoAggs]

\* the less function of the two sorts
Before(a, b, asc) ==
    IF asc THEN extractScore(a) < extractScore(b) ELSE extractScore(a) > extractScore(b)

RECURSIVE insertBy(_, _, _)
\* insert h after every element that does not come strictly after it (stable)
insertBy(h, sorted, asc) ==
    IF sorted = <<>> THEN <<h>>
    ELSE IF Before(h, Head(sorted), asc) THEN <<h>> \o sorted
    ELSE <<Head(sorted)>> \o insertBy(h, Tail(sorted), asc)

RECURSIVE stableSort(_, _)
\* sort.SliceStable by score: equal scores keep their input order
stableSort(hits, asc) ==
    IF hits = <<>> THEN <<>>
    ELSE insertBy(hits[Len(hits)], stableSort(SubSeq(hits, 1, Len(hits) - 1), asc), asc)

sortHitsByScore_Unsorted(hits) == hits

sortHitsByScore(hits) ==
    stableSort(hits, FALSE)

sortHitsByScoreAsc(hits) == stableSort(hits, TRUE)

mergeRelation_HotOnly(a, b) == a

mergeRelation(a, b) ==
    IF a = "gte" \/ b = "gte" THEN "gte" ELSE "eq"

mergeMaxScore(a, b) ==
    IF a = None THEN b
    ELSE IF b = None THEN a
    ELSE IF b.n > a.n THEN b ELSE a

\* MergeSearchResponses(hot, cold); a nil response is None
MergeSearchResponses(hot, cold) ==
    IF hot = None THEN cold
    ELSE IF cold = None THEN hot
    ELSE [Response(hot.total.value + cold.total.value,
                   mergeRelation(hot.total.relation, cold.total.relation),
                   mergeMaxScore(hot.maxScore, cold.maxScore),
                   sortHitsByScore(hot.hits \o cold.hits))
          EXCEPT !.aggs = mergeAggregations(hot.aggs, cold.aggs)]

MaxOf(a, b) == IF a >= b THEN a ELSE b

RECURSIVE maxScoreOf(_)
\* the loop recomputing max_score over a non-empty page
maxScoreOf(hits) ==
    IF Len(hits) = 1 THEN extractScore(hits[1])
    ELSE MaxOf(extractScore(hits[1]), maxScoreOf(Tail(hits)))

pageOf_FromStart(hits, from, size) ==
    IF size > Len(hits) THEN hits ELSE SubSeq(hits, 1, size)

\* hits[from:end] of the pagination block, nil when from is past the end
pageOf(hits, from, size) ==
    IF from > Len(hits) THEN <<>>
    ELSE IF from + size > Len(hits) THEN SubSeq(hits, from + 1, Len(hits))
    ELSE SubSeq(hits, from + 1, from + size)

\* the response with its hits replaced by the page, max_score recomputed
withPage(merged, page) ==
    [merged EXCEPT !.hits = page,
                   !.maxScore = IF page = <<>> THEN None ELSE JNum(maxScoreOf(page))]

\* the pagination block of MergeSearchResponsesWithOptions
paginate(merged, opts) ==
    withPage(merged, pageOf(merged.hits, ClampNeg(opts.From), ClampNeg(opts.Size)))

\* the ScoreAsc block of MergeSearchResponsesWithOptions
applyOrder(merged, opts) ==
    IF opts.ScoreAsc THEN [merged EXCEPT !.hits = sortHitsByScoreAsc(merged.hits)]
    ELSE merged

\* MergeSearchResponsesWithOptions after the merge itself
applyOptions(merged, opts) ==
    IF merged = None THEN None
    ELSE IF opts.Paginate THEN paginate(applyOrder(merged, opts), opts)
    ELSE applyOrder(merged, opts)

\* MergeSearchResponsesWithOptions(hot, cold, opts)
MergeSearchResponsesWithOptions(hot, cold, opts) ==
    applyOptions(MergeSearchResponses(hot, cold), opts)

----------------------------------------------------------------------------
(* Errors and backend clients *)

NoErr == [type |-> "nil"]
PlainErr == [type |-> "plain"]                      \* fmt.Errorf / transport error
HTTPStatusError(code) == [type |-> "http", code |-> code]

\* isAuthError: an HTTPStatusError carrying 401 or 403
isAuthError(err) ==
    /\ err # NoErr
    /\ err.type = "http"
    /\ err.code \in {401, 403}

\* statusFromAuthError: 403 for an HTTPStatusError 403, else 401
statusFromAuthError(err) ==
    IF err.type = "http" /\ err.code = 403 THEN 403 ELSE 401

\* What a backend answers to one HTTP call: a status code, or 0 when the round
\* trip itself fails (client.Do returns an error).
IsTransport(outcome) == outcome = 0
HotOutcomes == {0, 200, 401, 403, 500}
ColdOutcomes == {200, 500}

\* OpenSearch.Authenticate: the error it returns for an authinfo outcome
Authenticate(outcome) ==
    IF IsTransport(outcome) THEN PlainErr
    ELSE IF outcome = 401 \/ outcome = 403 THEN PlainErr
    ELSE NoErr

\* The sample documents the stores hold for a query.
HotSample ==
    Response(2, "eq", JNum(3), <<Hit(JNum(3), "hot"), Hit(JNum(1), "hot")>>)
ColdSample(idx) ==
    Response(1, "gte", JNum(2), <<Hit(JNum(2), idx)>>)

Result(r, err) == [resp |-> r, err |-> err]

\* the credentials SearchAs puts on the request: the given header, else setAuth
ServiceAccount == "service-account"
SearchAsCred(authHeader) ==
    IF authHeader # "" THEN authHeader ELSE ServiceAccount

\* OpenSearch.SearchAs: (response, error) for the hot store's answer
SearchAs(outcome) ==
    IF IsTransport(outcome) THEN Result(None, PlainErr)
    ELSE IF outcome >= 400 THEN Result(None, PlainErr)
    ELSE Result(HotSample, NoErr)

\* OpenSearch.SearchRaw: a non-2xx answer surfaces as a typed status error
SearchRaw(outcome) ==
    IF IsTransport(outcome) THEN Result(None, PlainErr)
    ELSE IF outcome >= 400 THEN Result(None, HTTPStatusError(outcome))
    ELSE Result(HotSample, NoErr)

\* Quickwit.Search
ColdSearch(idx, outcome) ==
    IF outcome >= 400 THEN Result(None, HTTPStatusError(outcome))
    ELSE Result(ColdSample(idx), NoErr)

Call(to, cred, out) == [to |-> to, cred |-> cred, out |-> out]

----------------------------------------------------------------------------
(* Index lists and cold index resolution *)

IsInternalName(idx) == idx = ".kibana"              \* strings.HasPrefix(idx, ".")
IsWildcardName(idx) == idx = "logs-*"               \* strings.ContainsAny(idx, "*?[]")

hasInternal_Never(indices) == FALSE

hasInternal(indices) ==
    \E i \in 1..Len(indices) : IsInternalName(indices[i])

hasWildcard(indices) == \E i \in 1..Len(indices) : IsWildcardName(indices[i])

\* util.MatchWildcard for the names of the model
MatchWildcard(pattern, name) ==
    pattern = "logs-*" /\ name \in {"logs-1", "logs-2"}

\* what Quickwit.ListIndices can return
Catalogs == {<<>>, <<"logs-1">>, <<"logs-1", "logs-2">>}

InSeq(x, sq) == \E i \in 1..Len(sq) : sq[i] = x

RECURSIVE expandPattern(_, _, _)
\* the inner loop of resolveColdIndices over the listed names
expandPattern(pattern, names, resolved) ==
    IF names = <<>> THEN resolved
    ELSE IF ~InSeq(Head(names), resolved) /\ MatchWildcard(pattern, Head(names))
         THEN expandPattern(pattern, Tail(names), Append(resolved, Head(names)))
         ELSE expandPattern(pattern, Tail(names), resolved)

RECURSIVE resolveLoop(_, _, _)
resolveLoop(indices, all, resolved) ==
    IF indices = <<>> THEN resolved
    ELSE IF ~IsWildcardName(Head(indices))
         THEN resolveLoop(Tail(indices), all,
                          IF InSeq(Head(indices), resolved) THEN resolved
                          ELSE Append(resolved, Head(indices)))
         ELSE resolveLoop(Tail(indices), all, expandPattern(Head(indices), all, resolved))

\* Proxy.resolveColdIndices once ListIndices returned `all`
resolveColdIndices(indices, all) ==
    IF ~hasWildcard(indices) THEN indices ELSE resolveLoop(indices, all, <<>>)

RECURSIVE mergeArrivals(_, _, _, _)
\* the receive loop of searchColdIndices: results arrive in the order `order`,
\* the first error ends the loop
mergeArrivals(resolved, outs, order, merged) ==
    IF order = <<>> THEN Result(merged, NoErr)
    ELSE IF outs[Head(order)] >= 400
    THEN ColdSearch(resolved[Head(order)], outs[Head(order)])
    ELSE mergeArrivals(resolved, outs, Tail(order),
                       MergeSearchResponses(merged,
                           ColdSearch(resolved[Head(order)], outs[Head(order)]).resp))

\* the searches of searchColdIndices over the resolved list: every way the N
\* backends can answer and every order in which the answers can arrive
searchResolved(resolved) ==
    LET n == Len(resolved)
    IN IF n = 0 THEN {[calls |-> <<>>, res |-> Result(None, PlainErr)]}
       ELSE IF n = 1
            THEN {[calls |-> <<Call("cold_search", ServiceAccount, o)>>,
                   res |-> ColdSearch(resolved[1], o)] : o \in ColdOutcomes}
            ELSE {[calls |-> [i \in 1..n |-> Call("cold_search", ServiceAccount, outs[i])],
                   res |-> mergeArrivals(resolved, outs, [i \in 1..n |-> perm[i]], None)] :
                     outs \in [1..n -> ColdOutcomes], perm \in Permutations(1..n)}

\* Proxy.searchColdIndices(indices, body): every outcome it can have, with the
\* calls it made to the cold store
searchColdIndices(indices) ==
    IF ~hasWildcard(indices) THEN searchResolved(indices)
    ELSE {[calls |-> <<Call("cold_list", ServiceAccount, 500)>>,
           res |-> Result(None, HTTPStatusError(500))]}
         \cup UNION {
           {[calls |-> <<Call("cold_list", ServiceAccount, 200)>> \o sr.calls,
             res |-> sr.res] : sr \in searchResolved(resolveColdIndices(indices, all))} :
           all \in Catalogs}

----------------------------------------------------------------------------
(* The proxy handler *)

RespondErr(status) == [status |-> status, body |-> None, via |-> "proxy"]
RespondJSON(body) == [status |-> 200, body |-> body, via |-> "proxy"]
NoResp == [status |-> 0, body |-> None, via |-> "none"]
NoMS == [needsCold |-> FALSE, entries |-> <<>>, i |-> 0, out |-> <<>>]

Step(p, tgt, pl, rs, m) == [pc |-> p, target |-> tgt, plan |-> pl, resp |-> rs, ms |-> m]

\* authenticateViaOpenSearch: no call at all when the header is empty
authenticateViaOpenSearch(authHeader, outcome) ==
    IF authHeader = "" THEN PlainErr ELSE Authenticate(outcome)

\* the status handleSearch answers when authentication returned err
coldAuthStatus(authHeader, err) ==
    IF authHeader = "" \/ isAuthError(err) THEN statusFromAuthError(err) ELSE 502

\* the status handleFanoutSearch and handleMSearch answer for an auth error
authStatus(err) ==
    IF isAuthError(err) THEN statusFromAuthError(err) ELSE 502

IsSingleConcrete(indices) == Len(indices) = 1 /\ ~hasWildcard(indices)

handleFanoutEntry_NoHeaderCheck(authHeader, tgt, pl) ==
    Step("fanout", tgt, pl, NoResp, NoMS)

\* handleFanoutSearch up to the launch of the two legs
handleFanoutEntry(authHeader, tgt, pl) ==
    IF authHeader = "" THEN Step("done", tgt, pl, RespondErr(401), NoMS)
    ELSE Step("fanout", tgt, pl, NoResp, NoMS)

\* the switch of handleSearch on the routing target; pl is the fan-out plan the
\* multi-index cold branch and the both branch compute
handleSearchWith(r, tgt, pl) ==
    IF tgt = "hot" THEN Step("revproxy", tgt, None, NoResp, NoMS)
    ELSE IF tgt = "cold"
         THEN IF IsSingleConcrete(r.indices)
              THEN Step("cold_auth", tgt, None, NoResp, NoMS)
              ELSE IF pl.err # "" THEN Step("done", tgt, pl, RespondErr(400), NoMS)
              ELSE Step("cold_auth", tgt, pl, NoResp, NoMS)
    ELSE IF pl.err # "" THEN Step("done", tgt, pl, RespondErr(400), NoMS)
    ELSE handleFanoutEntry(r.auth, tgt, pl)

\* handleSearch up to its first outbound call
handleSearch(r, clock) ==
    handleSearchWith(r, routeForIndices(r.body, r.indices, clock), planFanout(r.body))

\* parseMSearchNDJSON: an entry takes the header's index list, else the URL's
parseMSearchNDJSON(lines, defaultIndices) ==
    [i \in 1..Len(lines) |->
        [Indices |-> IF lines[i].hdr # <<>> THEN lines[i].hdr ELSE defaultIndices,
         Body |-> lines[i].body]]

\* the needsCold loop of handleMSearch
needsColdOf(entries, clock) ==
    \E i \in 1..Len(entries) :
        routeForIndices(entries[i].Body, entries[i].Indices, clock) # "hot"

MSState(needsCold, entries) ==
    [needsCold |-> needsCold, entries |-> entries, i |-> 1, out |-> <<>>]

\* handleMSearch once the body is parsed into entries
handleMSearchWith(r, entries, needsCold) ==
    IF r.odd THEN Step("done", "none", None, RespondErr(400), NoMS)
    ELSE IF entries = <<>> THEN Step("done", "none", None, RespondErr(400), NoMS)
    ELSE IF \E i \in 1..Len(entries) :
               hasInternal(entries[i].Indices) \/ entries[i].Indices = <<>>
         THEN Step("revproxy", "none", None, NoResp, NoMS)
    ELSE IF needsCold
         THEN IF r.auth = ""
              THEN Step("done", "none", None, RespondErr(401), MSState(needsCold, entries))
              ELSE Step("ms_auth", "none", None, NoResp, MSState(needsCold, entries))
    ELSE Step("ms_entry", "none", None, NoResp, MSState(needsCold, entries))

\* the entries of an msearch request
entriesOf(r) == parseMSearchNDJSON(r.lines, r.indices)

\* handleMSearch up to its first outbound call
handleMSearch(r, clock) ==
    handleMSearchWith(r, entriesOf(r), needsColdOf(entriesOf(r), clock))

\* A URL path is "/" followed by its segments joined by "/", and one more "/"
\* when slash is set.  A segment is the list of its comma-separated pieces, so
\* the empty segment is <<"">> and the word w is <<w>>.
Path(segs, slash) == [segs |-> segs, slash |-> slash]
Word(w) == <<w>>

\* strings.TrimSpace on the pieces of the model
TrimSpace(piece) ==
    IF piece = " " THEN "" ELSE IF piece = " logs " THEN "logs" ELSE piece

RECURSIVE splitLoop(_)
\* the loop of splitIndices: trim each piece, drop the empty ones
splitLoop(seg) ==
    IF seg = <<>> THEN <<>>
    ELSE IF TrimSpace(Head(seg)) = "" THEN splitLoop(Tail(seg))
    ELSE <<TrimSpace(Head(seg))>> \o splitLoop(Tail(seg))

\* splitIndices(seg)
splitIndices(seg) == IF seg = Word("") THEN <<>> ELSE splitLoop(seg)

Endpoint(kind, indices) == [kind |-> kind, indices |-> indices]

\* the switch of parseEndpoint on parts[1]
endpointOfParts(parts) ==
    IF parts[2] = Word("_search") THEN Endpoint("search", splitIndices(parts[1]))
    ELSE IF parts[2] = Word("_msearch") THEN Endpoint("msearch", splitIndices(parts[1]))
    ELSE Endpoint("other", <<>>)

\* parseEndpoint(path): strings.TrimSuffix(path, "/") drops the slash flag; a
\* request path always starts with "/"
parseEndpoint(path) ==
    IF path.segs = <<>> THEN Endpoint("other", <<>>)
    ELSE IF path.segs = <<Word("_search")>> THEN Endpoint("search", <<>>)
    ELSE IF path.segs = <<Word("_msearch")>> THEN Endpoint("msearch", <<>>)
    ELSE IF Len(path.segs) # 2 THEN Endpoint("other", <<>>)
    ELSE endpointOfParts(path.segs)

\* the health test of ServeHTTP compares the whole path, slash included
IsHealthPath(path) ==
    path \in {Path(<<Word("health")>>, FALSE), Path(<<Word("_health")>>, FALSE)}

\* the first lines of ServeHTTP: the health test, then parseEndpoint
endpointOf(path) ==
    IF IsHealthPath(path) THEN Endpoint("health", <<>>) ELSE parseEndpoint(path)

\* an inbound request, with what ServeHTTP makes of its path
Inbound(path, auth, body, lines, odd) ==
    [path |-> path, kind |-> endpointOf(path).kind, indices |-> endpointOf(path).indices,
     auth |-> auth, body |-> body, lines |-> lines, odd |-> odd]

\* the path /{indices}/{action}, /{action} for an empty index list
ActionPath(indices, action) ==
    IF indices = <<>> THEN Path(<<Word(action)>>, FALSE)
    ELSE Path(<<indices, Word(action)>>, FALSE)

\* Proxy.ServeHTTP up to the first outbound call.  r.kind and r.indices are what
\* the health test and parseEndpoint make of the path.
dispatch(r, clock) ==
    IF r.kind = "health"
    THEN Step("done", "none", None, [status |-> 200, body |-> None, via |-> "health"], NoMS)
    ELSE IF r.kind = "search"
    THEN IF r.indices = <<>> THEN Step("revproxy", "none", None, NoResp, NoMS)
         ELSE IF hasInternal(r.indices) THEN Step("revproxy", "none", None, NoResp, NoMS)
         ELSE handleSearch(r, clock)
    ELSE IF r.kind = "msearch"
    THEN IF hasInternal(r.indices) THEN Step("revproxy", "none", None, NoResp, NoMS)
         ELSE handleMSearch(r, clock)
    ELSE Step("revproxy", "none", None, NoResp, NoMS)

fanoutFinish_EitherFailed(hot, cold, merge) ==
    IF hot.err # NoErr \/ cold.err # NoErr THEN RespondErr(502)
    ELSE RespondJSON(MergeSearchResponsesWithOptions(hot.resp, cold.resp, merge))

fanoutFinish_NoBothCheck(hot, cold, merge) ==
    IF hot.resp = None /\ cold.resp = None
    THEN RespondJSON(Response(0, "eq", None, <<>>))
    ELSE RespondJSON(MergeSearchResponsesWithOptions(hot.resp, cold.resp, merge))

\* the tail of handleFanoutSearch: 502 when both legs failed, else the merge
fanoutFinish(hot, cold, merge) ==
    IF hot.err # NoErr /\ cold.err # NoErr THEN RespondErr(502)
    ELSE RespondJSON(MergeSearchResponsesWithOptions(hot.resp, cold.resp, merge))

fanoutJoin_NoAuthGuard(hot, cold, merge) ==
    [next |-> "done", resp |-> fanoutFinish(hot, cold, merge)]

\* handleFanoutSearch after wg.Wait(): answer, or authenticate explicitly first
fanoutJoin(hot, cold, merge) ==
    IF isAuthError(hot.err)
    THEN [next |-> "done", resp |-> RespondErr(statusFromAuthError(hot.err))]
    ELSE IF hot.err # NoErr THEN [next |-> "fanout_auth", resp |-> NoResp]
    ELSE [next |-> "done", resp |-> fanoutFinish(hot, cold, merge)]

\* handleFanoutSearch after the explicit authentication returned err
fanoutAfterAuth(err, hot, cold, merge) ==
    IF err # NoErr THEN RespondErr(authStatus(err))
    ELSE fanoutFinish(hot, cold, merge)

Elem(status, body) == [status |-> status, body |-> body]
MSOut(tgt, cs, out) == [target |-> tgt, calls |-> cs, out |-> out]

msHotElem_ErrorDropped(hot) ==
    Elem(200, hot.resp)

\* case RouteHotOnly of the entry loop, for the result of SearchAs
msHotElem(hot) ==
    IF hot.err # NoErr THEN Elem(authStatus(hot.err), None) ELSE Elem(200, hot.resp)

\* case RouteColdOnly of the entry loop, for the result of searchColdIndices
msColdElem(cold, needsMerge, merge) ==
    IF cold.err # NoErr THEN Elem(502, None)
    ELSE IF needsMerge
    THEN Elem(200, MergeSearchResponsesWithOptions(None, cold.resp, merge))
    ELSE Elem(200, cold.resp)

\* case RouteBoth of the entry loop, for the results of the two searches
msBothElem(hot, cold, merge) ==
    IF hot.err # NoErr /\ cold.err # NoErr THEN Elem(502, None)
    ELSE IF isAuthError(hot.err) THEN Elem(statusFromAuthError(hot.err), None)
    ELSE Elem(200, MergeSearchResponsesWithOptions(hot.resp, cold.resp, merge))

\* the plan of an entry: planFanout when a merge is needed, else the zero plan
entryPlan(e, needsMerge) ==
    IF needsMerge THEN planFanout(e.Body)
    ELSE Plan("", e.Body, MergeOptions(0, 0, FALSE, FALSE))

\* one iteration of the entry loop for the target and the plan of the entry
msEntryWith(e, authHeader, tgt, needsMerge, fan) ==
    IF needsMerge /\ fan.err # "" THEN {MSOut(tgt, <<>>, Elem(400, None))}
    ELSE IF tgt = "hot"
    THEN {MSOut(tgt, <<Call("hot_search", SearchAsCred(authHeader), o)>>,
                msHotElem(SearchAs(o))) : o \in HotOutcomes}
    ELSE IF tgt = "cold"
    THEN {MSOut(tgt, sr.calls, msColdElem(sr.res, needsMerge, fan.Merge)) :
             sr \in searchColdIndices(e.Indices)}
    ELSE {MSOut(tgt, <<Call("hot_search", SearchAsCred(authHeader), o)>> \o sr.calls,
                msBothElem(SearchAs(o), sr.res, fan.Merge)) :
             o \in HotOutcomes, sr \in searchColdIndices(e.Indices)}

needsMergeOf(tgt, e) == tgt = "both" \/ (tgt = "cold" /\ Len(e.Indices) > 1)

msEntryAt(e, authHeader, tgt) ==
    msEntryWith(e, authHeader, tgt, needsMergeOf(tgt, e), entryPlan(e, needsMergeOf(tgt, e)))

\* one iteration of the entry loop of handleMSearch: every (target, calls,
\* element) it can produce for entry e
msEntry(e, authHeader, clock) ==
    msEntryAt(e, authHeader, routeForIndices(e.Body, e.Indices, clock))

----------------------------------------------------------------------------
(* Requests of the model *)

MkBody(query, sort, sa, pit, from, size) ==
    [json |-> TRUE, query |-> query, sort |-> sort, search_after |-> sa,
     pit |-> pit, from |-> from, size |-> size]

Query(range, hasBool, filter, must) ==
    [range |-> range, hasBool |-> hasBool, filter |-> filter, must |-> must]

TsRange(lo, hi) == Query(Clause("@timestamp", Abs(lo), Abs(hi)), FALSE, <<>>, <<>>)

\* The clock starts at MaxTime - 1 and can advance to MaxTime.
EdgeTime == MaxTime - 1 - HotDays
ColdQ == TsRange(0, 0)
HotQ == TsRange(MaxTime, MaxTime)
StraddleQ == TsRange(0, MaxTime)
EdgeQ == TsRange(EdgeTime, EdgeTime)    \* hot at the first clock value, cold after

ScoreSideways == JObj([x \in {"_score"} |-> JStr("sideways")])

ProxyBodies ==
    {MkBody(q, srt, FALSE, FALSE, None, None) :
        q \in {ColdQ, HotQ, StraddleQ, EdgeQ, None},
        srt \in {None, JStr("@timestamp"), ScoreSideways}}
    \cup {MkBody(StraddleQ, None, FALSE, FALSE, JNum(1), JNum(1)),
          MkBody(ColdQ, None, TRUE, FALSE, None, None)}

SearchIndexLists ==
    {<<>>, <<"logs">>, <<"events">>, <<"logs-*">>, <<".kibana">>,
     <<"logs", "events">>, <<"logs", "logs-*">>, <<"logs", "audit">>}

AuthHeaders == {"", "Basic dXNlcjpwYXNz"}

SearchRequests ==
    {Inbound(ActionPath(ix, "_search"), a, b, <<>>, FALSE) :
        ix \in SearchIndexLists, a \in AuthHeaders, b \in ProxyBodies}

MSLines ==
    {[hdr |-> <<>>, body |-> MkBody(q, None, FALSE, FALSE, None, None)] :
        q \in {ColdQ, HotQ, EdgeQ, None}}
    \cup {[hdr |-> <<>>, body |-> MkBody(None, JStr("@timestamp"), FALSE, FALSE, None, None)],
          [hdr |-> <<"logs", "logs-*">>, body |-> MkBody(ColdQ, None, FALSE, FALSE, None, None)],
          [hdr |-> <<".kibana">>, body |-> MkBody(HotQ, None, FALSE, FALSE, None, None)]}

MSRequests ==
    {Inbound(ActionPath(ix, "_msearch"), a, None, ls, FALSE) :
        ix \in {<<>>, <<"logs">>}, a \in AuthHeaders,
        ls \in UNION {[1..n -> MSLines] : n \in 0..MaxEntries}}
    \cup {Inbound(ActionPath(<<"logs">>, "_msearch"), a, None, <<>>, TRUE) :
            a \in AuthHeaders}

\* paths besides /{indices}/_search and /{indices}/_msearch of the lists above
OtherPaths ==
    {Path(<<>>, FALSE),                                             \* /
     Path(<<Word("health")>>, FALSE),                               \* /health
     Path(<<Word("_health")>>, FALSE),                              \* /_health
     Path(<<Word("health")>>, TRUE),                                \* /health/
     Path(<<Word("logs")>>, FALSE),                                 \* /logs
     Path(<<Word("_search")>>, TRUE),                               \* /_search/
     Path(<<Word(""), Word("_search")>>, FALSE),                    \* //_search
     Path(<<<<" ", "">>, Word("_search")>>, FALSE),                 \* / ,/_search
     Path(<<Word("logs"), Word("_count")>>, FALSE),                 \* /logs/_count
     Path(<<Word("logs"), Word("_doc"), Word("1")>>, FALSE),        \* /logs/_doc/1
     Path(<<Word("logs"), Word("_search"), Word("")>>, TRUE),       \* /logs/_search//
     Path(<<Word("logs"), <<"_search", "x">>>>, FALSE),             \* /logs/_search,x
     Path(<<<<"logs", ".kibana">>, Word("_search")>>, TRUE),        \* /logs,.kibana/_search/
     Path(<<<<" logs ", ".kibana">>, Word("_msearch")>>, FALSE),    \* / logs ,.kibana/_msearch
     Path(<<Word(".kibana"), Word("_msearch")>>, FALSE)}            \* /.kibana/_msearch

OtherRequests ==
    {Inbound(p, a, None, <<>>, FALSE) : p \in OtherPaths, a \in AuthHeaders}

\* The values of the "sort" key the planner is tried on.
EmptyObj == JObj([x \in {} |-> JNull])
ScoreObj(v) == JObj([x \in {"_score"} |-> v])
OrderObj(v) == JObj([x \in {"order"} |-> v])

SortLeaves ==
    {JNull, JStr("_score"), JStr("@timestamp"), JNum(1), EmptyObj,
     ScoreObj(JStr("asc")), ScoreObj(JStr("desc")), ScoreObj(JStr("sideways")),
     ScoreObj(JNum(1)), ScoreObj(JNull), ScoreObj(EmptyObj),
     ScoreObj(OrderObj(JStr("asc"))), ScoreObj(OrderObj(JStr("desc"))),
     ScoreObj(OrderObj(JNum(1))),
     JObj([x \in {"@timestamp"} |-> JStr("desc")]),
     JObj([x \in {"_score", "@timestamp"} |-> JStr("desc")])}

SortValues ==
    {None} \cup SortLeaves
    \cup {JList(<<>>)}
    \cup {JList(<<x>>) : x \in SortLeaves}
    \cup {JList(<<JStr("_score"), JStr("@timestamp")>>),
          JList(<<JStr("_score"), JStr("_score")>>),
          JList(<<JList(<<JStr("_score")>>)>>),
          JList(<<JList(<<JStr("@timestamp")>>)>>)}

\* a body that is not JSON: every key reads as absent
NotJSON == [MkBody(None, None, FALSE, FALSE, None, None) EXCEPT !.json = FALSE]

PlannerBodies ==
    {MkBody(q, srt, f[1], f[2], None, None) :
        q \in {ColdQ, StraddleQ}, srt \in SortValues,
        f \in {<<FALSE, FALSE>>, <<TRUE, FALSE>>, <<FALSE, TRUE>>}}
    \cup {NotJSON}

PlannerRequests ==
    {Inbound(ActionPath(ix, "_search"), "Basic dXNlcjpwYXNz", b, <<>>, FALSE) :
        ix \in {<<"logs">>, <<"logs", "audit">>}, b \in PlannerBodies}

Requests == SearchRequests \cup PlannerRequests \cup MSRequests \cup OtherRequests

----------------------------------------------------------------------------
(* Actions of the proxy *)

FnOff == fpc = "off" /\ fin = None /\ fout = None

\* no migrator runs in this process
MigOff == mig = None /\ store = None /\ wk = None /\ acq = None /\ docs = None

\* a request arrives and is served up to its first outbound call
ServeHTTP ==
    /\ pc = "idle"
    /\ \E r \in Requests :
         \E d \in {dispatch(r, now)} :
            /\ req' = r
            /\ pc' = d.pc
            /\ target' = d.target
            /\ plan' = d.plan
            /\ resp' = d.resp
            /\ ms' = d.ms
    /\ calls' = <<>>
    /\ hotLeg' = None
    /\ coldLeg' = None
    /\ UNCHANGED <<now, fpc, fin, fout, mig, store, wk, acq, docs>>

\* p.reverseProxy.ServeHTTP: the request goes to the hot store with the client's
\* own headers, and the hot store's answer goes back unchanged
ReverseProxy ==
    /\ pc = "revproxy"
    /\ \E o \in HotOutcomes :
         /\ calls' = Append(calls, Call("revproxy", req.auth, o))
         /\ resp' = [status |-> IF IsTransport(o) THEN 502 ELSE o,
                     body |-> IF o = 200 THEN HotSample ELSE None,
                     via |-> "revproxy"]
    /\ pc' = "done"
    /\ UNCHANGED <<now, req, target, plan, hotLeg, coldLeg, ms, fpc, fin, fout, mig, store, wk, acq, docs>>

\* handleSearch, RouteColdOnly: authenticateViaOpenSearch and its error mapping
ColdAuth ==
    /\ pc = "cold_auth"
    /\ \E o \in HotOutcomes :
         LET err == authenticateViaOpenSearch(req.auth, o)
         IN /\ req.auth = "" => o = 0
            /\ calls' = IF req.auth = "" THEN calls
                        ELSE Append(calls, Call("authinfo", req.auth, o))
            /\ IF err # NoErr
               THEN /\ resp' = RespondErr(coldAuthStatus(req.auth, err))
                    /\ pc' = "done"
               ELSE /\ resp' = resp
                    /\ pc' = "cold_search"
    /\ UNCHANGED <<now, req, target, plan, hotLeg, coldLeg, ms, fpc, fin, fout, mig, store, wk, acq, docs>>

\* handleSearch, RouteColdOnly: the cold search, with the fallback to the
\* reverse proxy when it fails
ColdSearchStep ==
    /\ pc = "cold_search"
    /\ \E sr \in (IF IsSingleConcrete(req.indices)
                  THEN searchResolved(req.indices)
                  ELSE searchColdIndices(req.indices)) :
         /\ calls' = calls \o sr.calls
         /\ IF sr.res.err # NoErr
            THEN /\ pc' = "revproxy"
                 /\ resp' = resp
            ELSE /\ pc' = "done"
                 /\ resp' = IF IsSingleConcrete(req.indices)
                            THEN RespondJSON(sr.res.resp)
                            ELSE RespondJSON(MergeSearchResponsesWithOptions(
                                                 None, sr.res.resp, plan.Merge))
    /\ UNCHANGED <<now, req, target, plan, hotLeg, coldLeg, ms, fpc, fin, fout, mig, store, wk, acq, docs>>

\* handleFanoutSearch: the goroutine of the hot leg
HotLeg ==
    /\ pc = "fanout"
    /\ hotLeg = None
    /\ \E o \in HotOutcomes :
         /\ hotLeg' = SearchRaw(o)
         /\ calls' = Append(calls, Call("hot_search", req.auth, o))
    /\ UNCHANGED <<now, pc, req, target, plan, coldLeg, resp, ms, fpc, fin, fout, mig, store, wk, acq, docs>>

\* handleFanoutSearch: the goroutine of the cold leg
ColdLeg ==
    /\ pc = "fanout"
    /\ coldLeg = None
    /\ \E sr \in searchColdIndices(req.indices) :
         /\ coldLeg' = sr.res
         /\ calls' = calls \o sr.calls
    /\ UNCHANGED <<now, pc, req, target, plan, hotLeg, resp, ms, fpc, fin, fout, mig, store, wk, acq, docs>>

\* handleFanoutSearch after wg.Wait()
FanoutJoin ==
    /\ pc = "fanout"
    /\ hotLeg # None
    /\ coldLeg # None
    /\ LET j == fanoutJoin(hotLeg, coldLeg, plan.Merge)
       IN /\ pc' = j.next
          /\ resp' = j.resp
    /\ UNCHANGED <<now, req, target, plan, hotLeg, coldLeg, calls, ms, fpc, fin, fout, mig, store, wk, acq, docs>>

\* handleFanoutSearch: the explicit authentication after a non-auth hot failure
FanoutAuth ==
    /\ pc = "fanout_auth"
    /\ \E o \in HotOutcomes :
         /\ calls' = Append(calls, Call("authinfo", req.auth, o))
         /\ resp' = fanoutAfterAuth(authenticateViaOpenSearch(req.auth, o),
                                    hotLeg, coldLeg, plan.Merge)
    /\ pc' = "done"
    /\ UNCHANGED <<now, req, target, plan, hotLeg, coldLeg, ms, fpc, fin, fout, mig, store, wk, acq, docs>>

\* handleMSearch: the up-front authentication
MSAuth ==
    /\ pc = "ms_auth"
    /\ \E o \in HotOutcomes :
         LET err == authenticateViaOpenSearch(req.auth, o)
         IN /\ calls' = Append(calls, Call("authinfo", req.auth, o))
            /\ IF err # NoErr
               THEN /\ resp' = RespondErr(authStatus(err))
                    /\ pc' = "done"
               ELSE /\ resp' = resp
                    /\ pc' = "ms_entry"
    /\ UNCHANGED <<now, req, target, plan, hotLeg, coldLeg, ms, fpc, fin, fout, mig, store, wk, acq, docs>>

\* handleMSearch: one iteration of the loop over the entries
MSEntry ==
    /\ pc = "ms_entry"
    /\ ms.i <= Len(ms.entries)
    /\ \E x \in msEntry(ms.entries[ms.i], req.auth, now) :
         /\ calls' = calls \o x.calls
         /\ ms' = [ms EXCEPT !.i = @ + 1, !.out = Append(@, x.out)]
    /\ UNCHANGED <<now, pc, req, target, plan, hotLeg, coldLeg, resp, fpc, fin, fout, mig, store, wk, acq, docs>>

\* handleMSearch: writeJSON of the responses array
MSWrite ==
    /\ pc = "ms_entry"
    /\ ms.i > Len(ms.entries)
    /\ resp' = RespondJSON([k |-> "msearch", responses |-> ms.out])
    /\ pc' = "done"
    /\ UNCHANGED <<now, req, target, plan, hotLeg, coldLeg, calls, ms, fpc, fin, fout, mig, store, wk, acq, docs>>

\* the handler returned: the proxy is ready for the next request
Return ==
    /\ pc = "done"
    /\ pc' = "idle"
    /\ req' = None
    /\ target' = "none"
    /\ plan' = None
    /\ hotLeg' = None
    /\ coldLeg' = None
    /\ calls' = <<>>
    /\ resp' = NoResp
    /\ ms' = NoMS
    /\ UNCHANGED <<now, fpc, fin, fout, mig, store, wk, acq, docs>>

\* the wall clock advances
Tick ==
    /\ now < MaxTime
    /\ now' = now + 1
    /\ UNCHANGED <<pc, req, target, plan, hotLeg, coldLeg, calls, resp, ms, fpc, fin, fout, mig, store, wk, acq, docs>>

Init ==
    /\ now = MaxTime - 1
    /\ pc = "idle"
    /\ req = None
    /\ target = "none"
    /\ plan = None
    /\ hotLeg = None
    /\ coldLeg = None
    /\ calls = <<>>
    /\ resp = NoResp
    /\ ms = NoMS
    /\ FnOff
    /\ MigOff

Next ==
    \/ ServeHTTP
    \/ ReverseProxy
    \/ ColdAuth
    \/ ColdSearchStep
    \/ HotLeg
    \/ ColdLeg
    \/ FanoutJoin
    \/ FanoutAuth
    \/ MSAuth
    \/ MSEntry
    \/ MSWrite
    \/ Return
    \/ Tick

Spec == Init /\ [][Next]_vars

----------------------------------------------------------------------------
(* The router applied to inputs: Route and routeForIndices as functions *)

\* the bounds a range clause can carry
RouteBounds == {None, BadBound, Rel(1)} \cup {Abs(t) : t \in Times}
FilterBounds == {None} \cup {Abs(t) : t \in Times}

\* a top-level range on "@timestamp" and a bool.filter range on "created_at"
RouteBodies ==
    {MkBody(Query(Clause("@timestamp", lo, hi), TRUE,
                  <<Clause("created_at", flo, fhi)>>, <<>>),
            None, FALSE, FALSE, None, None) :
        lo \in RouteBounds, hi \in RouteBounds, flo \in FilterBounds, fhi \in FilterBounds}
    \cup {NotJSON, MkBody(None, None, FALSE, FALSE, None, None)}

RouteIndexLists == UNION {[1..n -> {"logs", "events"}] : n \in 1..MaxIdx}

RouteInputs ==
    {[body |-> b, indices |-> ix, clock |-> c] :
        b \in RouteBodies, ix \in RouteIndexLists, c \in HotDays..MaxTime}

Reorder(sq, p) == [i \in 1..Len(sq) |-> sq[p[i]]]

\* what the router computes for an input: the range and the decision of every
\* index, the decision for the list, and the decisions for every reordering
RouteOutput(in) ==
    [trs |-> [i \in 1..Len(in.indices) |->
                ExtractTimeRange(in.body, TimestampFieldForIndex(in.indices[i]), in.clock)],
     per |-> [i \in 1..Len(in.indices) |->
                Route(in.body, TimestampFieldForIndex(in.indices[i]), in.clock)],
     decision |-> routeForIndices(in.body, in.indices, in.clock),
     reordered |-> {routeForIndices(in.body, Reorder(in.indices, p), in.clock) :
                      p \in Permutations(1..Len(in.indices))}]

ProxyIdle ==
    /\ now = MaxTime - 1
    /\ pc = "idle"
    /\ req = None
    /\ target = "none"
    /\ plan = None
    /\ hotLeg = None
    /\ coldLeg = None
    /\ calls = <<>>
    /\ resp = NoResp
    /\ ms = NoMS

InitRoute ==
    /\ ProxyIdle
    /\ fpc = "call"
    /\ fin \in RouteInputs
    /\ fout = None
    /\ MigOff

\* routeForIndices is called on the input
RouteApply ==
    /\ fpc = "call"
    /\ fout' = RouteOutput(fin)
    /\ fpc' = "routed"
    /\ UNCHANGED <<fin, now, pc, req, target, plan, hotLeg, coldLeg, calls, resp, ms, mig, store, wk, acq, docs>>

NextRoute == RouteApply

SpecRoute == InitRoute /\ [][NextRoute]_vars

----------------------------------------------------------------------------
(* Properties of the proxy's authentication and routing *)

IsSearch == req # None /\ req.kind = "search"
IsMSearch == req # None /\ req.kind = "msearch"
Answered == pc = "done"

CallsTo(to) == {i \in 1..Len(calls) : calls[i].to = to}
HasCall(to, outs) == \E i \in CallsTo(to) : calls[i].out \in outs

\* the request needs the cold tier: a search routed COLD or BOTH, or an msearch
\* with an entry that is not routed HOT
NeedsCold ==
    \/ IsSearch /\ target \in {"cold", "both"}
    \/ IsMSearch /\ ms.needsCold

PlanRejected == IsSearch /\ plan # None /\ plan.err # ""

NoColdNoAuthinfo ==
    CallsTo("cold_search") \cup CallsTo("cold_list") \cup CallsTo("authinfo") = {}

\* C1: a single search routed BOTH with a non-empty Authorization header whose
\* hot leg failed with 401 or 403 is answered with that same status and with no
\* body at all, so with no hit and no total of the cold store, whatever the cold
\* leg returned and whichever leg finished first.
C1_HotAuthFailureHidesCold ==
    (Answered /\ IsSearch /\ target = "both" /\ req.auth # ""
        /\ HasCall("hot_search", {401, 403}))
    => \A i \in CallsTo("hot_search") :
          resp.status = calls[i].out /\ resp.body = None /\ resp.via = "proxy"

C1_Witness ==
    /\ Answered /\ IsSearch /\ target = "both" /\ req.auth # ""
    /\ Len(calls) = 2
    /\ calls[1].to = "cold_search" /\ calls[1].out = 200
    /\ calls[2].to = "hot_search" /\ calls[2].out = 403
    /\ resp.status = 403

\* C2 as stated: every request that needs the cold tier and has an empty
\* Authorization header is answered 401, with no cold search and no authinfo call.
C2_EmptyHeaderAlways401 ==
    (Answered /\ NeedsCold /\ req.auth = "")
    => resp.status = 401 /\ NoColdNoAuthinfo

\* C2, amended: a request that needs the cold tier and has an empty Authorization
\* header never causes a call to the cold store or to authinfo, and it is answered
\* 401, except that a single search whose body the fan-out planner rejects is
\* answered 400 (the plan is checked before the header).
C2_EmptyHeaderNoColdAccess ==
    (NeedsCold /\ req.auth = "")
    => /\ NoColdNoAuthinfo
       /\ Answered => resp.status = (IF PlanRejected THEN 400 ELSE 401)

C2_Witness ==
    /\ Answered /\ IsSearch /\ target = "both" /\ req.auth = ""
    /\ ~PlanRejected
    /\ resp.status = 401
    /\ calls = <<>>

\* C3 as stated: only 200 from authinfo is success; 401 or 403 gives a response
\* with that code; any other answer (500) or a transport error gives 502 and no
\* cold data is served.
C3_OnlyOKAuthenticates ==
    Answered
    => \A i \in CallsTo("authinfo") :
          /\ calls[i].out \in {401, 403} => resp.status = calls[i].out
          /\ calls[i].out \in {0, 500} => resp.status = 502 /\ resp.body = None

\* C4 as stated: every search the proxy itself sends to the hot store carries
\* the client's Authorization header, never the service account.
C4_ClientCredentialsOnly ==
    \A i \in CallsTo("hot_search") :
        calls[i].cred = req.auth /\ calls[i].cred # ServiceAccount

\* C5 as stated: for a single search routed COLD a search reaches the cold
\* store only after authinfo answered 200 for this request.
C5_ColdSearchOnlyAfterAuthOK ==
    (IsSearch /\ target = "cold")
    => \A i \in CallsTo("cold_search") :
          \E j \in CallsTo("authinfo") : j < i /\ calls[j].out = 200

\* C6 as stated: a single search routed BOTH whose hot leg failed with a
\* non-auth error is answered only after an explicit authentication: 401/403
\* from it gives that status, an inconclusive answer gives 502, and 200 is
\* answered only if it succeeded and the cold leg succeeded.
C6_ExplicitAuthAfterHotFailure ==
    (Answered /\ IsSearch /\ target = "both" /\ HasCall("hot_search", {0, 500}))
    => /\ CallsTo("authinfo") # {}
       /\ \A i \in CallsTo("authinfo") :
             /\ calls[i].out \in {401, 403} => resp.status = calls[i].out
             /\ calls[i].out \in {0, 500} => resp.status = 502
             /\ resp.status = 200 => calls[i].out = 200 /\ coldLeg.err = NoErr

LegTotal(leg) == IF leg.err = NoErr THEN leg.resp.total.value ELSE 0

\* C7: a single search routed BOTH with a non-empty header and an accepted plan
\* is answered 502 when both legs failed and the hot failure was not 401/403;
\* it is answered 200 only when at least one leg succeeded, and then the total
\* is the sum of the totals of the legs that succeeded: nothing is fabricated.
C7_BothFailedIsBadGateway ==
    (Answered /\ IsSearch /\ target = "both" /\ req.auth # "" /\ ~PlanRejected)
    => /\ (hotLeg.err # NoErr /\ coldLeg.err # NoErr
             /\ ~HasCall("hot_search", {401, 403})) => resp.status = 502
       /\ resp.status = 200 =>
             /\ hotLeg.err = NoErr \/ coldLeg.err = NoErr
             /\ resp.body # None
             /\ resp.body.total.value = LegTotal(hotLeg) + LegTotal(coldLeg)

C7_Witness ==
    /\ Answered /\ IsSearch /\ target = "both" /\ req.auth # ""
    /\ HasCall("hot_search", {500})
    /\ HasCall("authinfo", {200})
    /\ coldLeg.err # NoErr
    /\ resp.status = 502

\* the tier table: the decision for an extracted range and a cutoff
TierTable(tr, cutoff) ==
    IF tr = None THEN "both"
    ELSE IF tr.From # None /\ tr.To # None
    THEN (IF tr.To.t < cutoff THEN "cold"
          ELSE IF tr.From.t >= cutoff THEN "hot"
          ELSE "both")
    ELSE IF tr.From # None
    THEN (IF tr.From.t >= cutoff THEN "hot" ELSE "both")
    ELSE (IF tr.To.t < cutoff THEN "cold" ELSE "both")

\* C8: for every body, timestamp field and clock, Route returns what the tier
\* table gives for the extracted range and cutoff = now - hot_days: BOTH without
\* a range; with both bounds COLD when To < cutoff, HOT when From >= cutoff, else
\* BOTH; with From only HOT when From >= cutoff, else BOTH; with To only COLD
\* when To < cutoff, else BOTH.  A bound equal to the cutoff counts as hot.
C8_RouteFollowsTierTable ==
    fpc = "routed"
    => \A i \in 1..Len(fin.indices) :
          fout.per[i] = TierTable(fout.trs[i], fin.clock - HotDays)

C8_Witness ==
    /\ fpc = "routed"
    /\ Len(fin.indices) = 1
    /\ fout.trs[1] # None
    /\ fout.trs[1].From # None /\ fout.trs[1].From.t = fin.clock - HotDays
    /\ fout.trs[1].To # None /\ fout.trs[1].To.t > fin.clock - HotDays
    /\ fout.per[1] = "hot"

\* C9: for a list of indices the decision is the common decision of the
\* indices, each evaluated with its own timestamp field, when they all agree,
\* and BOTH when two of them differ; every reordering of the list gives the
\* same decision.
C9_CommonDecisionElseBoth ==
    fpc = "routed"
    => /\ fout.decision =
            (IF \A i, j \in 1..Len(fin.indices) : fout.per[i] = fout.per[j]
             THEN fout.per[1] ELSE "both")
       /\ fout.reordered = {fout.decision}

C9_Witness ==
    /\ fpc = "routed"
    /\ Len(fin.indices) >= 2
    /\ fout.per[1] = "hot"
    /\ fout.per[2] = "cold"
    /\ fout.decision = "both"

\* the sort values the statement of C10 lists
ListedSorts ==
    {None, JStr("_score"), ScoreObj(JStr("asc")), ScoreObj(JStr("desc")),
     ScoreObj(OrderObj(JStr("asc"))), ScoreObj(OrderObj(JStr("desc")))}

RECURSIVE ScoreOnly(_)
\* a sort that names only _score: absent, null, the empty list, the string
\* "_score", an object whose only key is "_score", or a one-element list of such
ScoreOnly(v) ==
    \/ v = None
    \/ v.k = "null"
    \/ v.k = "str" /\ v.s = "_score"
    \/ v.k = "obj" /\ DOMAIN v.m = {"_score"}
    \/ v.k = "list" /\ Len(v.items) = 0
    \/ v.k = "list" /\ Len(v.items) = 1 /\ ScoreOnly(v.items[1])

\* C10 as stated: a JSON body is accepted exactly when it has no search_after,
\* no pit, and its sort is absent, "_score", or a single _score clause with
\* "asc", "desc" or {"order": "asc" | "desc"}; a rejected query is answered 400
\* without a call to any backend.
C10_AcceptsListedSortsOnly ==
    (IsSearch /\ plan # None /\ req.body.json)
    => /\ plan.err = "" <=>
            (~req.body.search_after /\ ~req.body.pit /\ req.body.sort \in ListedSorts)
       /\ plan.err # "" => Answered /\ resp.status = 400 /\ calls = <<>>

\* C10, amended: for a single search routed BOTH, or routed COLD over several
\* indices or a wildcard, planFanout accepts a JSON body exactly when it has no
\* search_after, no pit, and its sort names only _score (absent, null, [],
\* "_score", an object whose only key is "_score" whatever its value, or a
\* one-element list of such); a rejected query is answered 400 without a call
\* to any backend.
C10_AcceptsScoreOnlySorts ==
    (IsSearch /\ plan # None /\ req.body.json)
    => /\ plan.err = "" <=>
            (~req.body.search_after /\ ~req.body.pit /\ ScoreOnly(req.body.sort))
       /\ plan.err # "" => Answered /\ resp.status = 400 /\ calls = <<>>

C10_Witness ==
    /\ IsSearch /\ target = "cold" /\ Len(req.indices) = 2
    /\ req.body.sort = JList(<<JStr("_score"), JStr("@timestamp")>>)
    /\ plan # None /\ plan.err = "explicit sort"
    /\ Answered /\ resp.status = 400 /\ calls = <<>>

----------------------------------------------------------------------------
(* The planner applied to inputs: planFanout as a function *)

\* what the "from" and "size" keys can hold: absent, a string, a number
PageValues == {None, JStr("ten")} \cup {JNum(n) : n \in -1..MaxPage}

PlanInputs ==
    {MkBody(None, srt, f[1], f[2], from, size) :
        srt \in SortValues,
        f \in {<<FALSE, FALSE>>, <<TRUE, FALSE>>, <<FALSE, TRUE>>},
        from \in PageValues, size \in PageValues}
    \cup {NotJSON}

InitPlan ==
    /\ ProxyIdle
    /\ fpc = "call"
    /\ fin \in PlanInputs
    /\ fout = None
    /\ MigOff

\* planFanout is called on the body
PlanApply ==
    /\ fpc = "call"
    /\ fout' = planFanout(fin)
    /\ fpc' = "planned"
    /\ UNCHANGED <<fin, now, pc, req, target, plan, hotLeg, coldLeg, calls, resp, ms, mig, store, wk, acq, docs>>

NextPlan == PlanApply

SpecPlan == InitPlan /\ [][NextPlan]_vars

\* the pagination a body asks for: the number under the key, else the default
AskedPage(v, def) == IF v # None /\ v.k = "num" THEN v.n ELSE def

RECURSIVE AscendingScore(_)
\* the sort asks for ascending _score: {"_score": "asc"}, {"_score": {"order":
\* "asc"}}, or a one-element list holding one of them
AscendingScore(v) ==
    /\ v # None
    /\ \/ /\ v.k = "obj" /\ DOMAIN v.m = {"_score"}
          /\ \/ v.m["_score"] = JStr("asc")
             \/ /\ v.m["_score"].k = "obj"
                /\ "order" \in DOMAIN v.m["_score"].m
                /\ v.m["_score"].m["order"] = JStr("asc")
       \/ v.k = "list" /\ Len(v.items) = 1 /\ AscendingScore(v.items[1])

\* C11: for every accepted JSON body with from = f >= 0 and size = s >= 0
\* (defaults 0 and 10), the body for the backends has from = 0 and size = f + s
\* when s > 0, size = 0 when s = 0, every other key unchanged, and the merge
\* directive is {From: f, Size: s, Paginate: true} with ScoreAsc set exactly
\* when the sort asks for ascending _score.
C11_RewritesPagination ==
    (fpc = "planned" /\ fin.json /\ fout.err = ""
        /\ AskedPage(fin.from, 0) >= 0 /\ AskedPage(fin.size, DefaultSize) >= 0)
    => /\ fout.Body = [fin EXCEPT
             !.from = JNum(0),
             !.size = JNum(IF AskedPage(fin.size, DefaultSize) = 0 THEN 0
                           ELSE AskedPage(fin.from, 0) + AskedPage(fin.size, DefaultSize))]
       /\ fout.Merge.From = AskedPage(fin.from, 0)
       /\ fout.Merge.Size = AskedPage(fin.size, DefaultSize)
       /\ fout.Merge.Paginate
       /\ fout.Merge.ScoreAsc <=> AscendingScore(fin.sort)

C11_Witness ==
    /\ fpc = "planned"
    /\ fin.from = JNum(MaxPage) /\ fin.size = JNum(1)
    /\ fin.sort = JList(<<ScoreObj(OrderObj(JStr("asc")))>>)
    /\ fout.err = ""
    /\ fout.Body.size = JNum(MaxPage + 1)
    /\ fout.Merge = MergeOptions(MaxPage, 1, TRUE, TRUE)

----------------------------------------------------------------------------
(* The merger applied to inputs: MergeSearchResponsesWithOptions as a function *)

\* the _score of a hit: missing, or a number
Scores == {None, JNum(0), JNum(1)}

\* a backend's hits with the given scores; the source tells the hits apart
HitsOf(side, scores) == [i \in 1..Len(scores) |-> Hit(scores[i], <<side, i>>)]

RECURSIVE maxScoreIn(_)
maxScoreIn(scores) ==
    IF Len(scores) = 1 THEN extractScore(Hit(scores[1], "any"))
    ELSE MaxOf(extractScore(Hit(scores[1], "any")), maxScoreIn(Tail(scores)))

\* a backend response with these hits; the total is exact, or a lower bound
BackendResponse(side, scores, exact) ==
    Response(IF exact THEN Len(scores) ELSE Len(scores) + 1,
             IF exact THEN "eq" ELSE "gte",
             IF scores = <<>> THEN None ELSE JNum(maxScoreIn(scores)),
             HitsOf(side, scores))

ScoreLists == UNION {[1..n -> Scores] : n \in 0..MaxHits}

\* score-descending lists, one hit longer than the general ones
DescendingLists ==
    {sc \in UNION {[1..n -> {JNum(0), JNum(1), JNum(2)}] : n \in 0..(MaxHits + 1)} :
        \A i \in 1..(Len(sc) - 1) : sc[i].n >= sc[i + 1].n}

\* a null response, or one with any hits and an exact total
MergeResponses(side) ==
    {None} \cup {BackendResponse(side, sc, TRUE) : sc \in ScoreLists}

\* responses that differ in their totals: exact or a lower bound, 0..MaxHits hits
TotalResponses(side) ==
    {BackendResponse(side, [i \in 1..n |-> JNum(1)], ex) : n \in 0..MaxHits, ex \in BOOLEAN}

PageOptions ==
    {MergeOptions(f, sz, asc, TRUE) : f \in 0..MaxPage, sz \in 0..MaxPage, asc \in BOOLEAN}
    \cup {MergeOptions(0, 0, asc, FALSE) : asc \in BOOLEAN}

\* the values of the "aggregations" key
AggValues ==
    {NoAggs, JNull, JStr("not an object"), EmptyObj}
    \cup {JObj([key \in ks |-> JNum(n)]) : ks \in {{"a"}, {"b"}, {"a", "b"}}, n \in {1, 2}}

MergeInput(family, hot, cold, opts) ==
    [family |-> family, hot |-> hot, cold |-> cold, opts |-> opts]

\* the inputs of the merger, by family: any two responses (either may be
\* null), responses that differ in their totals, score-descending hit lists
\* as the backends return them, and responses that carry aggregations
IsMergeInput(x) ==
    \/ \E h \in MergeResponses("hot"), c \in MergeResponses("cold"), o \in PageOptions :
          x = MergeInput("any", h, c, o)
    \/ \E h \in TotalResponses("hot"), c \in TotalResponses("cold"), o \in PageOptions :
          x = MergeInput("totals", h, c, o)
    \/ \E h \in DescendingLists, c \in DescendingLists, f \in 0..MaxPage, sz \in 0..MaxPage :
          x = MergeInput("descending", BackendResponse("hot", h, TRUE),
                         BackendResponse("cold", c, TRUE), MergeOptions(f, sz, FALSE, TRUE))
    \/ \E ha \in AggValues, ca \in AggValues :
          x = MergeInput("aggs",
                         [BackendResponse("hot", <<JNum(1)>>, TRUE) EXCEPT !.aggs = ha],
                         [BackendResponse("cold", <<JNum(0)>>, TRUE) EXCEPT !.aggs = ca],
                         MergeOptions(0, 0, FALSE, FALSE))

\* what a backend answers to the rewritten body (from = 0, size = need): its
\* first need hits, the total unchanged
FirstHits(r, need) ==
    IF r = None THEN None
    ELSE IF need >= Len(r.hits) THEN r
    ELSE [r EXCEPT !.hits = SubSeq(r.hits, 1, need)]

\* the merges of an input: with its options, with pagination switched off, and
\* of the answers to the rewritten body
MergeOutput(in) ==
    [merged |-> MergeSearchResponsesWithOptions(in.hot, in.cold, in.opts),
     unpaged |-> MergeSearchResponsesWithOptions(in.hot, in.cold,
                     [in.opts EXCEPT !.Paginate = FALSE]),
     rewritten |-> MergeSearchResponsesWithOptions(
                     FirstHits(in.hot, needOf(in.opts.From, in.opts.Size)),
                     FirstHits(in.cold, needOf(in.opts.From, in.opts.Size)),
                     in.opts)]

InitMerge ==
    /\ ProxyIdle
    /\ fpc = "call"
    /\ IsMergeInput(fin)
    /\ fout = None
    /\ MigOff

\* MergeSearchResponsesWithOptions is called on the input
MergeApply ==
    /\ fpc = "call"
    /\ fout' = MergeOutput(fin)
    /\ fpc' = "merged"
    /\ UNCHANGED <<fin, now, pc, req, target, plan, hotLeg, coldLeg, calls, resp, ms, mig, store, wk, acq, docs>>

NextMerge == MergeApply

SpecMerge == InitMerge /\ [][NextMerge]_vars

\* positions [from, from + size) of a sequence, counted from 0
Slice(sq, from, size) ==
    [i \in 1..(IF Len(sq) - from < size
               THEN (IF Len(sq) - from < 0 THEN 0 ELSE Len(sq) - from)
               ELSE size) |-> sq[from + i]]

ScoresOf(hits) == [i \in 1..Len(hits) |-> extractScore(hits[i])]

\* C12: for score-descending hit lists H and C and from, size >= 0, merging the
\* first from+size hits of H with the first from+size hits of C and paginating
\* with {from, size} gives the same sequence of scores as positions
\* [from, from+size) of the score-descending merge of the complete lists.
C12_RewrittenPageEqualsFullPage ==
    (fpc = "merged" /\ fin.family = "descending")
    => ScoresOf(fout.rewritten.hits)
         = ScoresOf(Slice(fout.unpaged.hits, fin.opts.From, fin.opts.Size))

C12_Witness ==
    /\ fpc = "merged" /\ fin.family = "descending"
    /\ fin.opts.From = 1 /\ fin.opts.Size = 1
    /\ Len(fin.hot.hits) = MaxHits + 1
    /\ Len(fin.cold.hits) = MaxHits + 1
    /\ ScoresOf(fin.hot.hits)[1] > ScoresOf(fin.cold.hits)[1]
    /\ ScoresOf(fin.cold.hits)[1] > ScoresOf(fin.hot.hits)[2]
    /\ fout.rewritten.hits = <<fin.cold.hits[1]>>

\* C13: for two non-null responses the merged total.value is the sum of the
\* two totals, the merged total.relation is "gte" exactly when one of the two
\* relations is "gte" and "eq" otherwise, and pagination leaves the total as
\* it is.
C13_TotalsAddUp ==
    (fpc = "merged" /\ fin.family \in {"totals", "any"} /\ fin.hot # None /\ fin.cold # None)
    => /\ fout.unpaged.total.value = fin.hot.total.value + fin.cold.total.value
       /\ fout.unpaged.total.relation =
            (IF "gte" \in {fin.hot.total.relation, fin.cold.total.relation}
             THEN "gte" ELSE "eq")
       /\ fout.merged.total = fout.unpaged.total

C13_Witness ==
    /\ fpc = "merged" /\ fin.family = "totals"
    /\ fin.hot.total.relation = "eq" /\ fin.cold.total.relation = "gte"
    /\ fin.opts.Paginate /\ fin.opts.From = 1 /\ fin.opts.Size = 1
    /\ Len(fin.hot.hits) = MaxHits /\ Len(fin.cold.hits) = MaxHits
    /\ Len(fout.merged.hits) = 1
    /\ fout.merged.total = [value |-> 2 * MaxHits + 1, relation |-> "gte"]

\* the hits a side contributes: none when the side is null
HitsIn(r) == IF r = None THEN <<>> ELSE r.hits

PosIn(h, sq) == CHOOSE i \in 1..Len(sq) : sq[i] = h

\* out is the stable sort of in by score: the same hits, in score order, hits
\* of equal score in the order they have in in
IsStableSort(out, in, asc) ==
    /\ Len(out) = Len(in)
    /\ {out[i] : i \in 1..Len(out)} = {in[i] : i \in 1..Len(in)}
    /\ \A i, j \in 1..Len(out) :
         i < j => /\ ~Before(out[j], out[i], asc)
                  /\ extractScore(out[i]) = extractScore(out[j])
                       => PosIn(out[i], in) < PosIn(out[j], in)

MergeCase == fpc = "merged" /\ fin.family = "any" /\ fout.merged # None

PageIsSlice ==
    fin.opts.Paginate
    => fout.merged.hits = Slice(fout.unpaged.hits, fin.opts.From, fin.opts.Size)

\* C14 as stated: for any hot and cold responses, one of them possibly null,
\* and any directive, the merged hit list before pagination is the stable sort
\* by _score (descending, ascending when ScoreAsc) of hot.hits ++ cold.hits,
\* and with Paginate the returned hits are positions [from, from+size) of it.
C14_MergedIsStableSort ==
    MergeCase
    => /\ IsStableSort(fout.unpaged.hits, HitsIn(fin.hot) \o HitsIn(fin.cold),
                       fin.opts.ScoreAsc)
       /\ PageIsSlice

\* C14, amended: the merged hit list before pagination is that stable sort
\* when both responses are non-null or ScoreAsc is set; when one response is
\* null and ScoreAsc is not set it is the other response's hits in the order
\* they were given.  With Paginate the returned hits are positions
\* [from, from+size) of the merged list, none when from is at or past its end.
C14_MergedIsStableSortUnlessOneSided ==
    MergeCase
    => /\ IF (fin.hot # None /\ fin.cold # None) \/ fin.opts.ScoreAsc
          THEN IsStableSort(fout.unpaged.hits, HitsIn(fin.hot) \o HitsIn(fin.cold),
                            fin.opts.ScoreAsc)
          ELSE fout.unpaged.hits = HitsIn(fin.hot) \o HitsIn(fin.cold)
       /\ PageIsSlice

C14_Witness ==
    /\ fpc = "merged" /\ fin.family = "any"
    /\ fin.hot # None /\ fin.cold # None
    /\ fin.opts = MergeOptions(1, 2, FALSE, TRUE)
    /\ fin.hot.hits = HitsOf("hot", <<JNum(0), JNum(1)>>)
    /\ fin.cold.hits = HitsOf("cold", <<JNum(1), None>>)
    /\ fout.merged.hits = <<fin.cold.hits[1], fin.hot.hits[1]>>

\* a null hot response and a cold response whose hits are not in score order
C14_OneSidedWitness ==
    /\ fpc = "merged" /\ fin.family = "any"
    /\ fin.hot = None /\ fin.cold # None /\ ~fin.opts.ScoreAsc
    /\ fin.cold.hits = HitsOf("cold", <<JNum(0), JNum(1)>>)
    /\ fout.unpaged.hits = fin.cold.hits

IsAggObject(v) == v.k = "obj"

\* the key-wise union of two aggregation objects, hot's value on a shared key
UnionHotWins(hot, cold) ==
    JObj([key \in DOMAIN hot.m \cup DOMAIN cold.m |->
            IF key \in DOMAIN hot.m THEN hot.m[key] ELSE cold.m[key]])

\* C15: merged aggregations are the key-wise union of the two aggregation
\* objects, hot's value kept on a shared key and cold-only keys kept; whenever
\* either side has no valid aggregations JSON the result is the hot side's.
C15_AggregationsUnionHotWins ==
    (fpc = "merged" /\ fin.family = "aggs")
    => fout.merged.aggs =
         (IF IsAggObject(fin.hot.aggs) /\ IsAggObject(fin.cold.aggs)
          THEN UnionHotWins(fin.hot.aggs, fin.cold.aggs)
          ELSE fin.hot.aggs)

\* hot "aggregations": null with a non-empty cold object: the merge writes to
\* a nil map and does not return
C15_NilMapWrite ==
    /\ fpc = "merged" /\ fin.family = "aggs"
    /\ fin.hot.aggs = JNull /\ IsAggObject(fin.cold.aggs)
    /\ fout.merged.aggs = Panic

\* hot without aggregations: the result is the cold side's
C15_ColdReturned ==
    /\ fpc = "merged" /\ fin.family = "aggs"
    /\ fin.hot.aggs = NoAggs /\ fin.cold.aggs = JObj([key \in {"a"} |-> JNum(1)])
    /\ fout.merged.aggs = fin.cold.aggs

SearchActions == {"_search", "_msearch"}

\* the path has one of the forms /{action} and /{indices}/{action}
RecognisedForm(path) ==
    \E a \in SearchActions :
        \/ path.segs = <<Word(a)>>
        \/ Len(path.segs) = 2 /\ path.segs[2] = Word(a)

\* a _search path that names no index
NoIndexSearch(path) ==
    \/ path.segs = <<Word("_search")>>
    \/ /\ Len(path.segs) = 2 /\ path.segs[2] = Word("_search")
       /\ \A i \in 1..Len(path.segs[1]) : TrimSpace(path.segs[1][i]) = ""

\* a recognised path whose index list has a name starting with "."
NamesInternalIndex(path) ==
    /\ RecognisedForm(path) /\ Len(path.segs) = 2
    /\ \E i \in 1..Len(path.segs[1]) : IsInternalName(TrimSpace(path.segs[1][i]))

BypassPath(path) ==
    NoIndexSearch(path) \/ NamesInternalIndex(path) \/ ~RecognisedForm(path)

\* one call in all, to the reverse proxy, with the client's own header; no
\* call before the answer
OnlyReverseProxied ==
    /\ NoColdNoAuthinfo
    /\ CallsTo("hot_search") = {}
    /\ IF Answered
       THEN /\ Len(calls) = 1 /\ calls[1].to = "revproxy" /\ calls[1].cred = req.auth
            /\ resp.via = "revproxy"
       ELSE calls = <<>> /\ pc = "revproxy"

\* C16 as stated: every request whose path is /_search with no index, whose
\* parsed index list has a name starting with ".", or whose path is not a
\* recognised search/msearch form is handed to the reverse proxy exactly once,
\* with the client's Authorization header, and neither the cold store nor
\* authinfo is called.
C16_BypassIsReverseProxied ==
    (req # None /\ pc # "idle" /\ BypassPath(req.path)) => OnlyReverseProxied

\* C16, amended: the same for every such request other than /health and
\* /_health, which the proxy answers itself with 200 and no call at all.
C16_BypassIsReverseProxiedExceptHealth ==
    (req # None /\ pc # "idle" /\ BypassPath(req.path))
    => IF IsHealthPath(req.path)
       THEN calls = <<>> /\ Answered /\ resp.status = 200 /\ resp.via = "health"
       ELSE OnlyReverseProxied

C16_Witness ==
    /\ req # None /\ Answered
    /\ req.path = Path(<<<<" logs ", ".kibana">>, Word("_msearch")>>, FALSE)
    /\ req.auth # ""
    /\ calls = <<Call("revproxy", req.auth, 401)>>
    /\ resp.status = 401

C16_HealthWitness ==
    /\ req # None /\ Answered /\ req.path = Path(<<Word("_health")>>, FALSE)
    /\ calls = <<>> /\ resp.via = "health"

\* the msearch got past the passthrough test and the up-front check
InEntryLoop == IsMSearch /\ ms # NoMS /\ (pc = "ms_entry" \/ (Answered /\ resp.status = 200))

\* an element is a search response, or an {error, status} object
WellFormedElem(el) ==
    \/ el.status = 200 /\ el.body # None
    \/ el.status \in {400, 401, 403, 502} /\ el.body = None

\* the entries of the msearch requests
EntriesOfRequests ==
    UNION {{entriesOf(r)[i] : i \in 1..Len(entriesOf(r))} : r \in MSRequests}

\* every element an entry can produce by itself, per credential and clock
EntryOutcomes ==
    UNION {{<<e, a, t, x.out>> : x \in msEntry(e, a, t)} :
             e \in EntriesOfRequests, a \in AuthHeaders, t \in Times}

\* el is something entry e can produce by itself at this clock, whatever else
\* is in the batch
OutcomeAlone(el, e) ==
    <<e, req.auth, now, el>> \in EntryOutcomes

\* a step of the entry loop: at most one element more, for the next entry,
\* the elements before it as they were
EntryStep ==
    /\ \A i \in 1..Len(ms.out) : ms'.out[i] = ms.out[i]
    /\ \/ ms'.out = ms.out
       \/ /\ Len(ms'.out) = Len(ms.out) + 1
          /\ WellFormedElem(ms'.out[Len(ms'.out)])
          /\ OutcomeAlone(ms'.out[Len(ms'.out)], entriesOf(req)[Len(ms'.out)])

C17_BackendFailureWitness ==
    /\ InEntryLoop /\ Answered
    /\ Len(resp.body.responses) = MaxEntries
    /\ resp.body.responses[1].status = 502
    /\ resp.body.responses[MaxEntries].status = 200

EntrySearches == CallsTo("hot_search") \cup CallsTo("cold_search")

\* C18: for an msearch with an entry routed COLD or BOTH the authentication
\* check is made once, before any entry's hot or cold search; when it fails
\* or is inconclusive (anything but a 200 from authinfo) the request is
\* answered 401, 403 or 502 and no entry's search is sent.
C18_AuthOnceBeforeAnyEntry ==
    (IsMSearch /\ ms # NoMS /\ ms.needsCold)
    => /\ Cardinality(CallsTo("authinfo")) <= 1
       /\ \A i \in EntrySearches :
            \E j \in CallsTo("authinfo") : j < i /\ calls[j].out = 200
       /\ (Answered /\ ~HasCall("authinfo", {200}))
            => resp.status \in {401, 403, 502} /\ EntrySearches = {}

\* authinfo answered 500 and the entries were searched all the same
C18_InconclusiveThenSearched ==
    /\ IsMSearch /\ ms # NoMS /\ ms.needsCold /\ Answered
    /\ calls # <<>> /\ calls[1] = Call("authinfo", req.auth, 500)
    /\ HasCall("cold_search", {200})
    /\ resp.status = 200

----------------------------------------------------------------------------
(* The migrator: MigrateIndex of one index, run by several migrator
   processes against the same hot store *)

Migrators == {"m1", "m2"}

\* cfg.Migration.Workers, cfg.Migration.MigrateAfterDays (days) and the lock
\* TTL (days) of the model
Workers == 2
MigrateAfterDays == 1
LockTTL == 1
\* the most documents a slice finds in a run
MaxDocs == 1

\* the documents of the window that the sliced scroll assigns to a slice: slice
\* 0 has MaxDocs of them, every other slice one less
DocsIn(sliceID) == IF sliceID = 0 THEN MaxDocs ELSE MaxDocs - 1

\* cfg.Migration.DeleteAfterMigration
DeleteAfterMigration == TRUE

\* m.lock != nil: the migrate command always passes WithDistLock
LockConfigured(m) == TRUE

Slices == 0..(Workers - 1)

\* Checkpoint: slices_done is a list, in the order the slices finished
Checkpoint(slicesDone, migrated, completed) ==
    [k |-> "checkpoint", SlicesDone |-> slicesDone, Migrated |-> migrated,
     Completed |-> completed]

\* Checkpoint.IsSliceDone
IsSliceDone(cp, sliceID) ==
    cp # None /\ \E i \in 1..Len(cp.SlicesDone) : cp.SlicesDone[i] = sliceID

Watermark(migratedBefore) == [k |-> "watermark", MigratedBefore |-> migratedBefore]

lockDoc(owner, expiresAt) == [k |-> "lock", Owner |-> owner, ExpiresAt |-> expiresAt]

\* the coordination documents of the index
State(cp, wm, lk) == [checkpoint |-> cp, watermark |-> wm, lock |-> lk]

Load_IgnoresCompleted(st) ==
    st.checkpoint

\* CheckpointStore.Load: nil when absent or completed
Load(st) ==
    IF st.checkpoint = None THEN None
    ELSE IF st.checkpoint.Completed THEN None
    ELSE st.checkpoint

\* CheckpointStore.Save
Save(st, cp) == [st EXCEPT !.checkpoint = cp]

\* the checkpoint MarkComplete saves for what Load returned
completedOf(cp) ==
    IF cp = None THEN Checkpoint(<<>>, 0, TRUE) ELSE [cp EXCEPT !.Completed = TRUE]

\* CheckpointStore.MarkComplete
MarkComplete(st) == Save(st, completedOf(Load(st)))

\* CheckpointStore.LoadWatermark
LoadWatermark(st) == st.watermark

\* CheckpointStore.SaveWatermark
SaveWatermark(st, wm) == [st EXCEPT !.watermark = wm]

cleanupExpired_AtExpiry(st, clock) ==
    IF st.lock # None /\ clock >= st.lock.ExpiresAt THEN [st EXCEPT !.lock = None] ELSE st

\* OpenSearchLock.cleanupExpired: delete the lock document once it has expired
cleanupExpired(st, clock) ==
    IF st.lock # None /\ clock > st.lock.ExpiresAt THEN [st EXCEPT !.lock = None] ELSE st

\* OpenSearchLock.tryCreate: an atomic create, refused (409) when the document
\* exists
tryCreate(st, owner, clock) ==
    IF st.lock = None
    THEN [acquired |-> TRUE, st |-> [st EXCEPT !.lock = lockDoc(owner, clock + LockTTL)]]
    ELSE [acquired |-> FALSE, st |-> st]

\* OpenSearchLock.Release: delete the lock document, whoever owns it
Release(st) == [st EXCEPT !.lock = None]

\* the locals of a MigrateIndex run; ret is "" until it returns
Run(p, locked, cutoff, cp, slice, migrated, ret) ==
    [pc |-> p, locked |-> locked, cutoffTime |-> cutoff, cp |-> cp, slice |-> slice,
     migrated |-> migrated, ret |-> ret]

NoRun == Run("idle", FALSE, 0, None, [s \in Slices |-> "none"], 0, "")

\* return from MigrateIndex: the deferred Release runs when the lock was taken
returnWith(r, ret) ==
    [NoRun EXCEPT !.pc = IF r.locked THEN "release" ELSE "returned",
                  !.locked = r.locked, !.ret = ret]

startRun_LaunchAll(r, cp, clock) ==
    [r EXCEPT !.pc = "workers",
              !.cutoffTime = clock - MigrateAfterDays,
              !.cp = IF cp = None THEN Checkpoint(<<>>, 0, FALSE) ELSE cp,
              !.slice = [s \in Slices |-> "running"]]

\* the cutoff and the workers of a run, for the checkpoint loaded
startRun(r, cp, clock) ==
    [r EXCEPT !.pc = "workers",
              !.cutoffTime = clock - MigrateAfterDays,
              !.cp = IF cp = None THEN Checkpoint(<<>>, 0, FALSE) ELSE cp,
              !.slice = [s \in Slices |->
                            IF IsSliceDone(cp, s) THEN "skipped"
                            ELSE "running"]]

\* the end of migrateSlice: the slice is marked done in the shared checkpoint
\* the mutex section working on a copy of the checkpoint taken before the wait
sliceDone_LostUpdate(r, s, n, saved) ==
    [r EXCEPT !.cp.SlicesDone = <<s>>,
              !.cp.Migrated = n,
              !.migrated = @ + n,
              !.slice[s] = IF saved THEN "ok" ELSE "failed"]

sliceDone(r, s, n, saved) ==
    [r EXCEPT !.cp.SlicesDone = IF IsSliceDone(r.cp, s) THEN @ ELSE Append(@, s),
              !.cp.Migrated = @ + n,
              !.migrated = @ + n,
              !.slice[s] = IF saved THEN "ok" ELSE "failed"]

HasErrors_Never(r) == FALSE

\* len(errs) > 0
HasErrors(r) ==
    \E s \in Slices : r.slice[s] = "failed"

\* after wg.Wait() with slice errors: the checkpoint is saved for resume
storeAfterErrors_WatermarkToo(st, r, saved) ==
    SaveWatermark(Save(st, r.cp), Watermark(r.cutoffTime))

storeAfterErrors(st, r, saved) ==
    IF saved THEN Save(st, r.cp) ELSE st

\* MarkComplete and SaveWatermark at the end of a run; either write can fail
storeAfterRun(st, r, marked, saved) ==
    IF saved
    THEN SaveWatermark(IF marked THEN MarkComplete(st) ELSE st, Watermark(r.cutoffTime))
    ELSE IF marked THEN MarkComplete(st) ELSE st

\* what MigrateIndex leaves alone: the proxy, and the finer-grained views of
\* the slice workers and of the lock clients
migProxyVars ==
    <<pc, req, target, plan, hotLeg, coldLeg, calls, resp, ms, fpc, fin, fout, wk, acq, docs>>

\* MigrateIndex starts: m.lock.Acquire
Acquire(m) ==
    /\ mig[m].pc \in {"idle", "returned"}
    /\ \E cleaned \in {store, cleanupExpired(store, now)}, failed \in BOOLEAN :
         \E got \in {tryCreate(cleaned, m, now)} :
            IF ~LockConfigured(m)
            THEN /\ mig' = [mig EXCEPT ![m] = [NoRun EXCEPT !.pc = "ensure"]]
                 /\ store' = store
            ELSE IF failed
            THEN /\ mig' = [mig EXCEPT ![m] = returnWith(NoRun, "error")]
                 /\ store' = cleaned
            ELSE IF ~got.acquired
            THEN /\ mig' = [mig EXCEPT ![m] = returnWith(NoRun, "skipped")]
                 /\ store' = cleaned
            ELSE /\ mig' = [mig EXCEPT ![m] = [NoRun EXCEPT !.pc = "ensure", !.locked = TRUE]]
                 /\ store' = got.st
    /\ UNCHANGED <<now, migProxyVars>>

\* ensureQuickwitIndex
EnsureIndex(m) ==
    /\ mig[m].pc = "ensure"
    /\ \E ok \in BOOLEAN :
         mig' = [mig EXCEPT ![m] = IF ok THEN [@ EXCEPT !.pc = "load"]
                                   ELSE returnWith(@, "error")]
    /\ UNCHANGED <<now, store, migProxyVars>>

\* checkpoint.Load, the cutoff, and the launch of the slice workers; a load
\* that fails gives nil.  The watermark loaded here only bounds the scroll query
\* from below.
LoadAndLaunch(m) ==
    /\ mig[m].pc = "load"
    /\ \E cp \in {Load(store), None} :
         mig' = [mig EXCEPT ![m] = startRun(@, cp, now)]
    /\ UNCHANGED <<now, store, migProxyVars>>

\* a slice worker returns nil: its slice is added to the checkpoint, which is
\* saved; a failed save makes the worker return an error
SliceDone(m, s) ==
    /\ mig[m].pc = "workers"
    /\ mig[m].slice[s] = "running"
    /\ \E saved \in BOOLEAN :
         \E r \in {sliceDone(mig[m], s, DocsIn(s), saved)} :
            /\ mig' = [mig EXCEPT ![m] = r]
            /\ store' = IF saved THEN Save(store, r.cp) ELSE store
    /\ UNCHANGED <<now, migProxyVars>>

\* a slice worker returns an error: scroll, transform or ingest failed, or the
\* context was cancelled
SliceFail(m, s) ==
    /\ mig[m].pc = "workers"
    /\ mig[m].slice[s] = "running"
    /\ mig' = [mig EXCEPT ![m].slice[s] = "failed"]
    /\ UNCHANGED <<now, store, migProxyVars>>

\* wg.Wait() returned and the errors are collected
Join(m) ==
    /\ mig[m].pc = "workers"
    /\ \A s \in Slices : mig[m].slice[s] # "running"
    /\ IF HasErrors(mig[m])
       THEN \E saved \in BOOLEAN :
               /\ store' = storeAfterErrors(store, mig[m], saved)
               /\ mig' = [mig EXCEPT ![m] = returnWith(@, "error")]
       ELSE /\ store' = store
            /\ mig' = [mig EXCEPT ![m].pc =
                          IF DeleteAfterMigration /\ mig[m].migrated > 0
                          THEN "delete" ELSE "finalize"]
    /\ UNCHANGED <<now, migProxyVars>>

\* hot.DeleteByQuery of the migrated window
DeleteByQuery(m) ==
    /\ mig[m].pc = "delete"
    /\ \E ok \in BOOLEAN :
         mig' = [mig EXCEPT ![m] = IF ok THEN [@ EXCEPT !.pc = "finalize"]
                                   ELSE returnWith(@, "error")]
    /\ UNCHANGED <<now, store, migProxyVars>>

\* checkpoint.MarkComplete, checkpoint.SaveWatermark, return nil
Finalize(m) ==
    /\ mig[m].pc = "finalize"
    /\ \E marked \in BOOLEAN, saved \in BOOLEAN :
         store' = storeAfterRun(store, mig[m], marked, saved)
    /\ mig' = [mig EXCEPT ![m] = returnWith(@, "ok")]
    /\ UNCHANGED <<now, migProxyVars>>

\* the deferred m.lock.Release; a failure is logged
ReleaseLock(m) ==
    /\ mig[m].pc = "release"
    /\ \E ok \in BOOLEAN : store' = IF ok THEN Release(store) ELSE store
    /\ mig' = [mig EXCEPT ![m].pc = "returned", ![m].locked = FALSE]
    /\ UNCHANGED <<now, migProxyVars>>

\* the clock starts early enough for a lock to expire
InitMigrate ==
    /\ now = MaxTime - LockTTL - 1
    /\ pc = "idle"
    /\ req = None
    /\ target = "none"
    /\ plan = None
    /\ hotLeg = None
    /\ coldLeg = None
    /\ calls = <<>>
    /\ resp = NoResp
    /\ ms = NoMS
    /\ FnOff
    /\ mig = [m \in Migrators |-> NoRun]
    /\ store = State(None, None, None)
    /\ wk = None
    /\ acq = None
    /\ docs = None

NextMigrate ==
    \/ Tick
    \/ \E m \in Migrators :
         \/ Acquire(m)
         \/ EnsureIndex(m)
         \/ LoadAndLaunch(m)
         \/ \E s \in Slices : SliceDone(m, s) \/ SliceFail(m, s)
         \/ Join(m)
         \/ DeleteByQuery(m)
         \/ Finalize(m)
         \/ ReleaseLock(m)

SpecMigrate == InitMigrate /\ [][NextMigrate]_vars

\* a run that returned nil after doing the work (not one that found the lock held)
Completed(r) == r.ret = "ok"

\* C19: over any sequence of MigrateIndex runs that complete successfully, by
\* whichever migrator, the persisted watermark migrated_before never
\* decreases: once a watermark is persisted, every later persisted value is at
\* least as large.
C19_WatermarkNeverDecreases ==
    [][store.watermark # None
       => /\ store'.watermark # None
          /\ store'.watermark.MigratedBefore >= store.watermark.MigratedBefore]_vars

\* a run that started after another run's lock expired has completed and
\* persisted its later cutoff; the earlier run is about to complete too
C19_OverlapWitness ==
    \E a, b \in Migrators :
        /\ a # b
        /\ mig[a].pc = "finalize"
        /\ mig[b].ret = "ok"
        /\ store.watermark # None
        /\ store.watermark.MigratedBefore > mig[a].cutoffTime

\* C20: a step that changes the persisted watermark is the last step of a run
\* all of whose launched slice workers returned success, and that run returns
\* nil with the watermark at its cutoff; so a run that ends with an error has
\* written no watermark.
C20_WatermarkOnlyOnSuccess ==
    [][/\ store'.watermark # store.watermark
          => \E m \in Migrators :
                /\ mig[m].pc = "finalize"
                /\ \A s \in Slices : mig[m].slice[s] \in {"ok", "skipped"}
                /\ Completed(mig'[m])
                /\ store'.watermark = Watermark(mig[m].cutoffTime)
       /\ \A m \in Migrators :
            (mig'[m].ret = "error" /\ mig[m].ret # "error")
            => store'.watermark = store.watermark]_vars

\* a run with one slice done and one failed is about to return its error; its
\* cutoff is past the watermark a previous run persisted
C20_Witness ==
    \E m \in Migrators :
        /\ mig[m].pc = "workers"
        /\ mig[m].slice[0] = "ok" /\ mig[m].slice[1] = "failed"
        /\ store.watermark # None
        /\ store.watermark.MigratedBefore < mig[m].cutoffTime
        /\ \A o \in Migrators \ {m} : mig[o].pc \in {"idle", "returned"}

\* the launch of the workers of a run that loaded an in-progress checkpoint
LaunchesLoaded(m) ==
    /\ mig[m].pc = "load" /\ mig'[m].pc = "workers"
    /\ Load(store) # None /\ mig'[m].cp = Load(store)

\* C21: when MigrateIndex starts with a loaded in-progress checkpoint, a worker
\* is started for slice i of [0, workers) exactly when i is not in the
\* checkpoint's slices_done, and a slice that was skipped stays untouched for
\* the rest of the run: no scroll is opened for it.
C21_DoneSlicesSkipped ==
    [][\A m \in Migrators, s \in Slices :
          /\ LaunchesLoaded(m)
                => /\ mig'[m].slice[s] = "running" <=> ~IsSliceDone(Load(store), s)
                   /\ mig'[m].slice[s] = "skipped" <=> IsSliceDone(Load(store), s)
          /\ mig[m].slice[s] = "skipped" => mig'[m].slice[s] \in {"skipped", "none"}]_vars

\* a resumed run skipped slice 0, which the loaded checkpoint records as done,
\* and runs slice 1
C21_Witness ==
    \E m \in Migrators :
        /\ mig[m].pc = "workers"
        /\ mig[m].slice[0] = "skipped" /\ mig[m].slice[1] = "running"
        /\ IsSliceDone(Load(store), 0) /\ ~IsSliceDone(Load(store), 1)
        /\ \A o \in Migrators \ {m} : mig[o].pc \in {"idle", "returned"}

\* a worker of run m sends the documents of slice s to the cold store
SendsDocs(m, s) ==
    /\ mig[m].slice[s] = "running"
    /\ mig'[m].slice[s] \in {"ok", "failed"}
    /\ mig'[m].migrated > mig[m].migrated

\* C22: a run sends the documents of a slice to the cold store at most once,
\* and a later run sends them again only if the persisted checkpoint does not
\* record that slice as done.
C22_NoResendOfDoneSlice ==
    [][\A m \in Migrators, s \in Slices :
          SendsDocs(m, s) => ~IsSliceDone(Load(store), s)]_vars

\* the run of m has slice workers running
Ingesting(m) == mig[m].pc = "workers" /\ \E s \in Slices : mig[m].slice[s] = "running"

\* C23: with the distributed lock configured, at most one migrator process has
\* slice workers running for the index at any time, whatever the interleaving
\* of the instances and however long a run takes.
C23_AtMostOneIngesting ==
    (\A m \in Migrators : LockConfigured(m))
    => \A a, b \in Migrators : (Ingesting(a) /\ Ingesting(b)) => a = b

-----------------------------------------------------------------------------
(* OpenSearchLock.Acquire and Release call by call: the GET and the conditional
   DELETE of cleanupExpired and the create of tryCreate are separate requests,
   and the requests of several clients interleave *)

\* most writes to the lock document that a behaviour makes
MaxSeq == 4

\* the lock document as a GET returns it: found, _source and _seq_no; a delete
\* leaves the sequence number behind
LockEntry(found, doc, seqNo) == [found |-> found, doc |-> doc, SeqNo |-> seqNo]

\* a client of the lock: where its Acquire call is, the expired document its
\* cleanup read (None otherwise), and what its last Acquire returned
LockCall(p, seen, ret) == [pc |-> p, seen |-> seen, ret |-> ret]

deleteIfSeqNo_OlderVersions(entry, seqNo) ==
    IF entry.found /\ entry.SeqNo >= seqNo
    THEN LockEntry(FALSE, None, entry.SeqNo + 1) ELSE entry

\* the DELETE of cleanupExpired with if_seq_no of an unconditional delete
deleteIfSeqNo_Unconditional(entry, seqNo) ==
    IF entry.found THEN LockEntry(FALSE, None, entry.SeqNo + 1) ELSE entry

\* the DELETE of cleanupExpired: it takes effect on the version that was read
deleteIfSeqNo(entry, seqNo) ==
    IF entry.found /\ entry.SeqNo = seqNo
    THEN LockEntry(FALSE, None, entry.SeqNo + 1) ELSE entry

\* the DELETE of Release: by key, whoever owns the document
deleteDoc(entry) ==
    IF entry.found THEN LockEntry(FALSE, None, entry.SeqNo + 1) ELSE entry

\* the PUT with op_type=create of tryCreate: 409 when the document exists
createDoc(entry, owner, clock) ==
    IF entry.found THEN entry
    ELSE LockEntry(TRUE, lockDoc(owner, clock + LockTTL), entry.SeqNo + 1)

lockOtherVars ==
    <<pc, req, target, plan, hotLeg, coldLeg, calls, resp, ms, fpc, fin, fout, mig, wk, docs>>

\* Acquire is called
AcquireCall(c) ==
    /\ acq[c].pc = "idle"
    /\ acq' = [acq EXCEPT ![c] = LockCall("get", None, "")]
    /\ UNCHANGED <<now, store, lockOtherVars>>

\* cleanupExpired, the GET: an error or a missing or unexpired document ends the
\* cleanup, an expired one is remembered with its sequence number
CleanupGet(c) ==
    /\ acq[c].pc = "get"
    /\ \E ok \in BOOLEAN :
         acq' = [acq EXCEPT ![c] =
                    IF ok /\ store.lock.found /\ now > store.lock.doc.ExpiresAt
                    THEN LockCall("delete", store.lock, "")
                    ELSE LockCall("create", None, "")]
    /\ UNCHANGED <<now, store, lockOtherVars>>

\* cleanupExpired, the DELETE with if_seq_no: its status is not looked at
CleanupDelete(c) ==
    /\ acq[c].pc = "delete"
    /\ store.lock.SeqNo < MaxSeq
    /\ \E ok \in BOOLEAN :
         store' = [store EXCEPT !.lock =
                      IF ok THEN deleteIfSeqNo(@, acq[c].seen.SeqNo) ELSE @]
    /\ acq' = [acq EXCEPT ![c].pc = "create"]
    /\ UNCHANGED <<now, lockOtherVars>>

\* tryCreate: true when the document was created, false on 409, else an error
TryCreate(c) ==
    /\ acq[c].pc = "create"
    /\ store.lock.SeqNo < MaxSeq
    /\ \E ok \in BOOLEAN :
         IF ~ok
         THEN /\ acq' = [acq EXCEPT ![c].pc = "idle", ![c].ret = "error"]
              /\ store' = store
         ELSE IF store.lock.found
         THEN /\ acq' = [acq EXCEPT ![c].pc = "idle", ![c].ret = "false"]
              /\ store' = store
         ELSE /\ acq' = [acq EXCEPT ![c].pc = "held", ![c].ret = "true"]
              /\ store' = [store EXCEPT !.lock = createDoc(@, c, now)]
    /\ UNCHANGED <<now, lockOtherVars>>

\* Release by a client whose Acquire returned true
ReleaseCall(c) ==
    /\ acq[c].pc = "held"
    /\ store.lock.SeqNo < MaxSeq
    /\ \E ok \in BOOLEAN :
         store' = [store EXCEPT !.lock = IF ok THEN deleteDoc(@) ELSE @]
    /\ acq' = [acq EXCEPT ![c].pc = "idle"]
    /\ UNCHANGED <<now, lockOtherVars>>

\* the owner stops without releasing
Stop(c) ==
    /\ acq[c].pc = "held"
    /\ acq' = [acq EXCEPT ![c].pc = "stopped"]
    /\ UNCHANGED <<now, store, lockOtherVars>>

\* time passes
LockTick ==
    /\ now < MaxTime
    /\ now' = now + 1
    /\ UNCHANGED <<acq, store, lockOtherVars>>

InitLock ==
    /\ now = MaxTime - LockTTL - 1
    /\ pc = "idle"
    /\ req = None
    /\ target = "none"
    /\ plan = None
    /\ hotLeg = None
    /\ coldLeg = None
    /\ calls = <<>>
    /\ resp = NoResp
    /\ ms = NoMS
    /\ FnOff
    /\ mig = None
    /\ wk = None
    /\ acq = [c \in Migrators |-> LockCall("idle", None, "")]
    /\ docs = None
    /\ store = State(None, None, LockEntry(FALSE, None, 0))

NextLock ==
    \/ LockTick
    \/ \E c \in Migrators :
         \/ AcquireCall(c)
         \/ CleanupGet(c)
         \/ CleanupDelete(c)
         \/ TryCreate(c)
         \/ ReleaseCall(c)
         \/ Stop(c)

SpecLock == InitLock /\ [][NextLock]_vars

\* the Acquire call of c returns true in this step
ReturnsTrue(c) == acq[c].pc = "create" /\ acq'[c].ret = "true"

\* the cleanup of c deletes the lock document in this step
CleanupDeletes(c) ==
    acq[c].pc = "delete" /\ acq'[c].pc = "create" /\ store.lock.found /\ ~store'.lock.found

\* C24: for a lock key there is one lock document at most, and Acquire calls
\* racing on the key, however their GET, conditional DELETE and create
\* interleave, never take the lock from under an unexpired document: an
\* Acquire returns true only by creating the document when there was none,
\* and a cleanup deletes only a document that has expired.
C24_AcquireRespectsUnexpiredLock ==
    [][\A c \in Migrators :
          /\ ReturnsTrue(c) => /\ ~store.lock.found
                               /\ store'.lock.found
                               /\ store'.lock.doc = lockDoc(c, now + LockTTL)
          /\ CleanupDeletes(c) => now > store.lock.doc.ExpiresAt
          /\ (acq[c].pc = "create" /\ acq'[c].pc = "idle") => store' = store]_vars

\* two clients read the same expired document; one of them deleted it and took
\* the lock, the other's conditional delete and create were refused
C24_Witness ==
    \E a, b \in Migrators :
        /\ a # b
        /\ acq[a].pc = "held" /\ acq[a].seen # None
        /\ acq[b].pc = "idle" /\ acq[b].ret = "false" /\ acq[b].seen = acq[a].seen
        /\ store.lock.found /\ store.lock.doc.Owner = a
        /\ store.lock.SeqNo = acq[a].seen.SeqNo + 2

\* m calls Acquire, as the first step of MigrateIndex, while a lock document
\* exists; no other client acts during the call
AcquiresOver(m) ==
    /\ mig[m].pc \in {"idle", "returned"}
    /\ mig'[m] # mig[m]
    /\ store.lock # None

\* C25: when an owner has stopped without releasing, the next Acquire on the key
\* after now has passed the document's expires_at, by any instance, with the
\* hot store reachable and no competing acquirer, deletes the expired document
\* and returns true; up to expires_at an Acquire returns false (or the error of
\* an unreachable store) and leaves the document alone.
C25_ExpiredLockIsReclaimed ==
    [][\A m \in Migrators :
          AcquiresOver(m)
          => IF now > store.lock.ExpiresAt
             THEN \/ mig'[m].locked /\ store'.lock = lockDoc(m, now + LockTTL)
                  \/ ~mig'[m].locked /\ mig'[m].ret = "error"
                  \/ ~mig'[m].locked /\ mig'[m].ret = "skipped" /\ store' = store
             ELSE /\ ~mig'[m].locked
                  /\ mig'[m].ret \in {"skipped", "error"}
                  /\ store' = store]_vars

\* b took over the lock of a, which has not released it, at this very time
C25_Witness ==
    \E a, b \in Migrators :
        /\ a # b
        /\ mig[a].locked /\ mig[a].pc = "workers"
        /\ mig[b].locked /\ mig[b].pc = "ensure"
        /\ store.lock = lockDoc(b, now + LockTTL)

\* b found the unexpired lock of a and returned without doing anything
C25_HeldWitness ==
    \E a, b \in Migrators :
        /\ a # b
        /\ mig[a].locked /\ mig[a].pc = "workers"
        /\ store.lock # None /\ store.lock.Owner = a /\ now = store.lock.ExpiresAt
        /\ mig[b].pc = "returned" /\ mig[b].ret = "skipped"

\* the lock document of m is still in the index
LockLeft(m) == store.lock # None /\ store.lock.Owner = m

\* C26: a MigrateIndex execution that acquired the lock has removed its lock
\* document by the time it returns, on every exit path: success, slice errors,
\* failure to create the cold index, delete-by-query failure, and cancellation of
\* the caller's context.
C26_ReturnedMeansReleased ==
    \A m \in Migrators : mig[m].pc = "returned" => ~LockLeft(m)

-----------------------------------------------------------------------------
(* The checkpoint stores as an API: Save, MarkComplete and Load called in any
   order, on LocalCheckpointStore and on OpenSearchCheckpointStore, for two
   indices.  Both stores keep one document per index and have the same Load
   and MarkComplete. *)

StoreKinds == {"local", "opensearch"}
StoreIndices == {"logs", "events"}
StoreKeys == StoreKinds \X StoreIndices

\* the checkpoints a caller saves
Checkpoints ==
    {Checkpoint(sd, Len(sd) * MaxDocs, c) : sd \in {<<>>, <<0>>}, c \in BOOLEAN}

\* a call of the API and what it returned
StoreCall(op, key, cp) == [op |-> op, key |-> key, cp |-> cp]

storeOtherVars ==
    <<now, pc, req, target, plan, hotLeg, coldLeg, calls, resp, ms, fpc, mig, wk, acq, docs>>

StoreSave(key, cp) ==
    /\ fpc = "store"
    /\ store' = [store EXCEPT ![key] = Save(@, cp)]
    /\ fin' = StoreCall("Save", key, cp)
    /\ fout' = "ok"
    /\ UNCHANGED storeOtherVars

StoreMarkComplete(key) ==
    /\ fpc = "store"
    /\ store' = [store EXCEPT ![key] = MarkComplete(@)]
    /\ fin' = StoreCall("MarkComplete", key, None)
    /\ fout' = "ok"
    /\ UNCHANGED storeOtherVars

StoreLoad(key) ==
    /\ fpc = "store"
    /\ fin' = StoreCall("Load", key, None)
    /\ fout' = Load(store[key])
    /\ UNCHANGED <<store, storeOtherVars>>

InitStore ==
    /\ ProxyIdle
    /\ fpc = "store"
    /\ fin = None
    /\ fout = None
    /\ mig = None
    /\ wk = None
    /\ acq = None
    /\ docs = None
    /\ store = [key \in StoreKeys |-> State(None, None, None)]

NextStore ==
    \E key \in StoreKeys :
        \/ \E cp \in Checkpoints : StoreSave(key, cp)
        \/ StoreMarkComplete(key)
        \/ StoreLoad(key)

SpecStore == InitStore /\ [][NextStore]_vars

\* the call made in this step
Called(op, key) == fin'.op = op /\ fin'.key = key

\* C27: for both checkpoint stores and any index, Load returns nil right after
\* MarkComplete, whatever was saved before, and once Load returns nil (also for
\* an index never saved) it keeps returning nil until a Save writes a
\* checkpoint with completed = false; a Load returns what is stored and
\* changes nothing.
C27_CompletedLoadsAsAbsent ==
    [][\A key \in StoreKeys :
          /\ Called("MarkComplete", key) => Load(store'[key]) = None
          /\ (Load(store[key]) = None /\ Load(store'[key]) # None)
                => Called("Save", key) /\ ~fin'.cp.Completed
          /\ Called("Load", key) => fout' = Load(store'[key]) /\ store' = store]_vars

\* Load has just returned nil for an index whose checkpoint, with a slice done,
\* was saved and then marked complete, in both stores; the checkpoint of the
\* other index is still in progress
C27_Witness ==
    /\ fpc = "store" /\ fin # None /\ fin.op = "Load" /\ fin.key[2] = "logs"
    /\ fout = None
    /\ \A kind \in StoreKinds :
          /\ store[<<kind, "logs">>].checkpoint = Checkpoint(<<0>>, MaxDocs, TRUE)
          /\ Load(store[<<kind, "events">>]) = Checkpoint(<<0>>, MaxDocs, FALSE)

\* a persisted checkpoint that Load would return
InProgress(cp) == cp # None /\ ~cp.Completed

\* slices_done holds each id once, and only ids of [0, workers)
WellFormedSlices(cp) ==
    /\ \A i, j \in 1..Len(cp.SlicesDone) : cp.SlicesDone[i] = cp.SlicesDone[j] => i = j
    /\ \A i \in 1..Len(cp.SlicesDone) : cp.SlicesDone[i] \in Slices

\* C28: every checkpoint the migrator persists has each slice id at most once
\* in slices_done and only ids of [0, workers), and migrated does not decrease
\* from one save of an in-progress checkpoint to the next.
C28_CheckpointWellFormedAndMonotonic ==
    [][store'.checkpoint # None
       => /\ WellFormedSlices(store'.checkpoint)
          /\ (InProgress(store.checkpoint) /\ InProgress(store'.checkpoint))
                => store'.checkpoint.Migrated >= store.checkpoint.Migrated]_vars

\* MigrateIndex leaves the worker phase in this step, with a failed worker
LeavesWorkersFailed(m) ==
    /\ mig[m].pc = "workers" /\ mig'[m].pc # "workers"
    /\ \E s \in Slices : mig[m].slice[s] = "failed"

\* the slices that finished in this run, and those the run found done
FinishedOrLoaded(r) == {s \in Slices : r.slice[s] \in {"ok", "skipped"}}

\* what every run with a failed worker does: it has waited for all workers, it
\* returns an error, and it goes on to no delete-by-query, MarkComplete or
\* SaveWatermark
FailedRunStops(m) ==
    /\ \A s \in Slices : mig[m].slice[s] # "running"
    /\ mig'[m].pc = "release" /\ mig'[m].ret = "error"
    /\ store'.watermark = store.watermark

\* C29 as stated: when a slice worker fails, MigrateIndex waits for all launched
\* workers, persists a checkpoint that is not completed and whose slices_done
\* has every slice that finished in this run and every slice loaded as done,
\* returns an error, and calls no delete-by-query, MarkComplete or
\* SaveWatermark.
C29_FailedRunPersistsCheckpoint ==
    [][\A m \in Migrators :
          LeavesWorkersFailed(m)
          => /\ FailedRunStops(m)
             /\ InProgress(store'.checkpoint)
             /\ \A s \in FinishedOrLoaded(mig[m]) : IsSliceDone(store'.checkpoint, s)]_vars

\* C29 with the save that can fail: the checkpoint handed to Save is not
\* completed and has every slice that finished in this run and every slice
\* loaded as done; it is what is persisted afterwards unless the store refused
\* the write, and then the persisted checkpoint is the one that was there.
C29_FailedRunSavesCheckpoint ==
    [][\A m \in Migrators :
          LeavesWorkersFailed(m)
          => /\ FailedRunStops(m)
             /\ InProgress(mig[m].cp)
             /\ \A s \in FinishedOrLoaded(mig[m]) : IsSliceDone(mig[m].cp, s)
             /\ store'.checkpoint \in {mig[m].cp, store.checkpoint}]_vars

\* the first run on the index has returned its error after slice 0 finished and
\* slice 1 failed: the checkpoint with slice 0 is persisted, nothing else is
C29_Witness ==
    \E m \in Migrators :
        /\ mig[m].pc = "release" /\ mig[m].ret = "error"
        /\ store.checkpoint = Checkpoint(<<0>>, MaxDocs, FALSE)
        /\ store.watermark = None
        /\ \A o \in Migrators \ {m} : mig[o].pc = "idle"

(* migrateSlice, call by call: the workers of one MigrateIndex run, each with
   its scroll on the hot store, sharing the run's checkpoint *)

\* cfg.Migration.BatchSize, the size of a scroll page
BatchSize == 1

\* the scroll ids the hot store hands out
ScrollIDs == {"scroll-a", "scroll-b"}

\* backend.ScrollResult, with the number of hits of the page
ScrollResult(scrollID, hits) == [k |-> "scroll", ScrollID |-> scrollID, Hits |-> hits]

\* the locals of a migrateSlice call: result and sliceMigrated, where the call
\* is and what it returned; left is what the scroll has not returned yet,
\* opened whether the hot store opened a scroll for the call, and cleared the
\* scroll id ClearScroll was called with ("" when it was not called)
Worker(p, result, sliceMigrated, left, opened, cleared, ret) ==
    [pc |-> p, result |-> result, sliceMigrated |-> sliceMigrated, left |-> left,
     opened |-> opened, cleared |-> cleared, ret |-> ret]

\* the next page of a scroll with n documents left
scrollPage(n) == IF n < BatchSize THEN n ELSE BatchSize

\* the deferred function of migrateSlice: ClearScroll with the scroll id of
\* result, when result has one
deferredClear(w) ==
    IF w.result # None /\ w.result.ScrollID # "" THEN w.result.ScrollID ELSE ""

\* a return after the defer statement
returnWithDefer(w, ret) ==
    [w EXCEPT !.pc = "returned", !.ret = ret, !.cleared = deferredClear(w)]

sliceOtherVars ==
    <<now, pc, req, target, plan, hotLeg, coldLeg, calls, resp, ms, fpc, fin, fout, acq, docs>>

\* the initial SlicedScroll; an error returns before the defer statement
InitialScroll(s) ==
    /\ wk[s].pc = "start"
    /\ \/ \E id \in ScrollIDs :
             wk' = [wk EXCEPT ![s].result = ScrollResult(id, scrollPage(wk[s].left)),
                              ![s].left = @ - scrollPage(wk[s].left),
                              ![s].opened = TRUE,
                              ![s].pc = "loop"]
       \/ wk' = [wk EXCEPT ![s].pc = "returned", ![s].ret = "initiating scroll"]
    /\ UNCHANGED <<mig, store, sliceOtherVars>>

\* the loop holds a page with hits: TransformBatch
Transform(s) ==
    /\ wk[s].pc = "loop"
    /\ wk[s].result.Hits > 0
    /\ \/ wk' = [wk EXCEPT ![s].pc = "ingest"]
       \/ wk' = [wk EXCEPT ![s] = returnWithDefer(@, "transforming batch")]
    /\ UNCHANGED <<mig, store, sliceOtherVars>>

\* cold.BulkIngest of the transformed page
BulkIngest(s) ==
    /\ wk[s].pc = "ingest"
    /\ \/ wk' = [wk EXCEPT ![s].sliceMigrated = @ + wk[s].result.Hits,
                            ![s].pc = "scroll"]
       \/ wk' = [wk EXCEPT ![s] = returnWithDefer(@, "ingesting batch")]
    /\ UNCHANGED <<mig, store, sliceOtherVars>>

\* the SlicedScroll that continues the scroll: result is assigned what it
\* returns, which is nil with an error
ContinueScroll(s) ==
    /\ wk[s].pc = "scroll"
    /\ \/ \E id \in ScrollIDs :
             wk' = [wk EXCEPT ![s].result = ScrollResult(id, scrollPage(wk[s].left)),
                              ![s].left = @ - scrollPage(wk[s].left),
                              ![s].pc = "loop"]
       \/ wk' = [wk EXCEPT ![s] = returnWithDefer([@ EXCEPT !.result = None],
                                                  "continuing scroll")]
    /\ UNCHANGED <<mig, store, sliceOtherVars>>

\* the page has no hits: the slice is marked done and the checkpoint saved
MarkSliceDone(s) ==
    /\ wk[s].pc = "loop"
    /\ wk[s].result.Hits = 0
    /\ \E saved \in BOOLEAN :
         \E r \in {sliceDone(mig, s, wk[s].sliceMigrated, saved)} :
            /\ mig' = r
            /\ store' = IF saved THEN Save(store, r.cp) ELSE store
            /\ wk' = [wk EXCEPT ![s] = returnWithDefer(@, IF saved THEN "nil"
                                                          ELSE "saving checkpoint")]
    /\ UNCHANGED sliceOtherVars

InitSlice ==
    /\ ProxyIdle
    /\ fpc = "slice"
    /\ fin = None
    /\ fout = None
    /\ acq = None
    /\ docs = None
    /\ store = State(None, None, None)
    /\ mig = Run("workers", FALSE, 0, Checkpoint(<<>>, 0, FALSE),
                 [s \in Slices |-> "running"], 0, "")
    /\ wk = [s \in Slices |-> Worker("start", None, 0, DocsIn(s), FALSE, "", "")]

NextSlice ==
    \E s \in Slices :
        \/ InitialScroll(s)
        \/ Transform(s)
        \/ BulkIngest(s)
        \/ ContinueScroll(s)
        \/ MarkSliceDone(s)

SpecSlice == InitSlice /\ [][NextSlice]_vars

\* C30: every slice worker that opened a scroll has called ClearScroll when it
\* has returned, on every exit path: the normal end, and a failure of the
\* transform, of the ingest, of the scroll continuation or of the checkpoint
\* save.
C30_OpenedScrollIsCleared ==
    \A s \in Slices :
        wk[s].pc = "returned" /\ wk[s].opened => wk[s].cleared # ""

\* the same, without the exit after a failed scroll continuation
C30_ClearedOnOtherExits ==
    \A s \in Slices :
        /\ wk[s].pc = "returned" /\ wk[s].opened
        /\ wk[s].ret # "continuing scroll"
        => wk[s].cleared # ""

----------------------------------------------------------------------------
(* The fan-out with one leg failed *)

\* a single search routed BOTH, with a header and an accepted plan, has been
\* answered after its hot leg succeeded and its cold leg failed
HotOnlyAnswer ==
    /\ Answered /\ IsSearch /\ target = "both" /\ req.auth # "" /\ ~PlanRejected
    /\ hotLeg.err = NoErr /\ coldLeg.err # NoErr

\* the hits of the hot response in the order the directive asks for
HotOrdered ==
    IF plan.Merge.ScoreAsc
    THEN CHOOSE o \in {[i \in 1..Len(hotLeg.resp.hits) |-> hotLeg.resp.hits[p[i]]] :
                          p \in Permutations(1..Len(hotLeg.resp.hits))} :
             IsStableSort(o, hotLeg.resp.hits, TRUE)
    ELSE hotLeg.resp.hits

C31_NoIndexWitness ==
    /\ HotOnlyAnswer
    /\ HasCall("cold_list", {200})
    /\ CallsTo("cold_search") = {}
    /\ resp.status = 200

----------------------------------------------------------------------------
(* MigrateIndex with the documents of the index: one migrator process, run
   after run, while documents are indexed into the hot store.  In this part
   the clock counts half seconds, so that a time has a sub-second part, and the
   migrate-after period is MigrateAfterDays seconds long. *)

\* the units of the clock in a second
Second == 2

\* cfg.Migration.Workers of a run; the configuration can change between runs
WorkerCounts == {1, 2}

\* the _id values of the documents, and the timestamps they can carry
DocIDs == {0, 1}
DocTimes == 0..(Second - 1)

\* time.Format(time.RFC3339): the sub-second part is dropped
formatRFC3339(t) == t - (t % Second)

\* time.Now().UTC().AddDate(0, 0, -migrateDays)
cutoffAt(clock) == clock - MigrateAfterDays * Second

\* the range clause of buildMigrationQuery and buildMigrationDeleteQuery:
\* hasGte tells whether it has a "gte" key; fromTime is nil (None) or points
\* at the MigratedBefore of the watermark
RangeClause(hasGte, gte, lt) == [k |-> "range", hasGte |-> hasGte, gte |-> gte, lt |-> lt]

rangeClause_RawCutoff(fromTime, cutoff) ==
    IF fromTime = None THEN RangeClause(FALSE, 0, cutoff)
    ELSE RangeClause(TRUE, formatRFC3339(fromTime.MigratedBefore), cutoff)

rangeClause(fromTime, cutoff) ==
    IF fromTime = None THEN RangeClause(FALSE, 0, formatRFC3339(cutoff))
    ELSE RangeClause(TRUE, formatRFC3339(fromTime.MigratedBefore), formatRFC3339(cutoff))

\* the hot store's range query on the timestamp field
InRange(rc, ts) == (rc.hasGte => ts >= rc.gte) /\ ts < rc.lt

\* a document of the hot store: its timestamp, whether delete-by-query removed
\* it, and whether it was there when the run under way started (between runs:
\* whether it will be there when the next run starts, which is always)
HotDoc(ts, deleted, old) == [k |-> "doc", ts |-> ts, deleted |-> deleted, old |-> old]

Docs(hot, cold) == [hot |-> hot, cold |-> cold]

\* the slice of a sliced scroll a document falls in
sliceOf(id, max) == id % max

\* what the sliced scroll of slice s returns for the range clause
scrollHits(hot, rc, s, max) ==
    {id \in DocIDs : /\ hot[id] # None /\ ~hot[id].deleted
                     /\ InRange(rc, hot[id].ts)
                     /\ sliceOf(id, max) = s}

\* the hot store after the delete-by-query with the range clause
deleteByQuery(hot, rc) ==
    [id \in DocIDs |->
        IF hot[id] # None /\ InRange(rc, hot[id].ts)
        THEN [hot[id] EXCEPT !.deleted = TRUE] ELSE hot[id]]

\* the locals of the MigrateIndex run: workers, fromTime and cutoffTime, the
\* checkpoint, the state of each slice worker and progress.Migrated; last is
\* how the previous run ended: Returned with its range clause and whether
\* its watermark was saved when it returned nil, Failed when it returned an
\* error, Never before the first run
WindowRun(p, workers, fromTime, cutoff, cp, slice, migrated, last) ==
    [pc |-> p, workers |-> workers, fromTime |-> fromTime, cutoffTime |-> cutoff,
     cp |-> cp, slice |-> slice, migrated |-> migrated, last |-> last]

Never == [k |-> "never"]
Failed == [k |-> "failed"]
Returned(rc, saved) == [k |-> "returned", rc |-> rc, saved |-> saved]

NoWindowRun(last) ==
    WindowRun("idle", 0, None, 0, None, [s \in Slices |-> "none"], 0, last)

windowOtherVars ==
    <<pc, req, target, plan, hotLeg, coldLeg, calls, resp, ms, fpc, fin, fout, wk, acq>>

\* a document is indexed into the hot store
IndexDoc ==
    /\ \E id \in DocIDs, ts \in DocTimes :
         /\ docs.hot[id] = None
         /\ docs' = [docs EXCEPT !.hot[id] = HotDoc(ts, FALSE, mig.pc = "idle")]
    /\ UNCHANGED <<now, mig, store, windowOtherVars>>

\* MigrateIndex up to the launch of the workers: checkpoint and watermark are
\* loaded (a failed load is logged and counts as nothing found), the window is
\* computed and a worker is started for every slice not recorded done
WindowStart ==
    /\ mig.pc = "idle"
    /\ \E w \in WorkerCounts, cpLoaded \in BOOLEAN, wmLoaded \in BOOLEAN :
         \E cp \in {IF cpLoaded THEN Load(store) ELSE None} :
            mig' = WindowRun("workers", w,
                       IF wmLoaded THEN LoadWatermark(store) ELSE None,
                       cutoffAt(now),
                       IF cp = None THEN Checkpoint(<<>>, 0, FALSE) ELSE cp,
                       [s \in Slices |-> IF s >= w THEN "none"
                                         ELSE IF IsSliceDone(cp, s) THEN "skipped"
                                         ELSE "running"],
                       0, mig.last)
    /\ docs' = [docs EXCEPT !.hot = [id \in DocIDs |->
                    IF docs.hot[id] = None THEN None
                    ELSE [docs.hot[id] EXCEPT !.old = TRUE]]]
    /\ UNCHANGED <<now, store, windowOtherVars>>

\* migrateSlice to its end: every hit of the slice is ingested, the slice is
\* marked done and the checkpoint saved
WindowSliceDone(s) ==
    /\ mig.pc = "workers"
    /\ mig.slice[s] = "running"
    /\ \E saved \in BOOLEAN :
         \E hits \in {scrollHits(docs.hot, rangeClause(mig.fromTime, mig.cutoffTime),
                                 s, mig.workers)} :
            \E r \in {sliceDone(mig, s, Cardinality(hits), saved)} :
               /\ mig' = r
               /\ store' = IF saved THEN Save(store, r.cp) ELSE store
               /\ docs' = [docs EXCEPT !.cold = @ \cup hits]
    /\ UNCHANGED <<now, windowOtherVars>>

\* migrateSlice returns an error after some of its batches were ingested
WindowSliceFail(s) ==
    /\ mig.pc = "workers"
    /\ mig.slice[s] = "running"
    /\ \E part \in SUBSET scrollHits(docs.hot, rangeClause(mig.fromTime, mig.cutoffTime),
                                      s, mig.workers) :
         /\ mig' = [mig EXCEPT !.slice[s] = "failed",
                               !.migrated = @ + Cardinality(part)]
         /\ docs' = [docs EXCEPT !.cold = @ \cup part]
    /\ UNCHANGED <<now, store, windowOtherVars>>

\* wg.Wait() returned: with slice errors the checkpoint is saved and the run
\* returns the error
WindowJoin ==
    /\ mig.pc = "workers"
    /\ \A s \in Slices : mig.slice[s] # "running"
    /\ IF HasErrors(mig)
       THEN \E saved \in BOOLEAN :
               /\ store' = storeAfterErrors(store, mig, saved)
               /\ mig' = NoWindowRun(Failed)
       ELSE /\ store' = store
            /\ mig' = [mig EXCEPT !.pc = IF DeleteAfterMigration /\ mig.migrated > 0
                                         THEN "delete" ELSE "finalize"]
    /\ UNCHANGED <<now, docs, windowOtherVars>>

\* the delete-by-query over the window of the run
WindowDelete ==
    /\ mig.pc = "delete"
    /\ \/ /\ docs' = [docs EXCEPT !.hot = deleteByQuery(@, rangeClause(mig.fromTime,
                                                                      mig.cutoffTime))]
          /\ mig' = [mig EXCEPT !.pc = "finalize"]
       \/ /\ docs' = docs
          /\ mig' = NoWindowRun(Failed)
    /\ UNCHANGED <<now, store, windowOtherVars>>

\* MarkComplete and SaveWatermark, then return nil
WindowFinalize ==
    /\ mig.pc = "finalize"
    /\ \E marked \in BOOLEAN, saved \in BOOLEAN :
         /\ store' = storeAfterRun(store, mig, marked, saved)
         /\ mig' = NoWindowRun(Returned(rangeClause(mig.fromTime, mig.cutoffTime), saved))
    /\ UNCHANGED <<now, docs, windowOtherVars>>

\* the wall clock advances; MigrateIndex reads it once, for the cutoff, so it
\* is advanced between the runs
WindowTick ==
    /\ mig.pc = "idle"
    /\ now < MaxTime
    /\ now' = now + 1
    /\ UNCHANGED <<mig, store, docs, windowOtherVars>>

InitWindow ==
    /\ now = MigrateAfterDays * Second
    /\ pc = "idle"
    /\ req = None
    /\ target = "none"
    /\ plan = None
    /\ hotLeg = None
    /\ coldLeg = None
    /\ calls = <<>>
    /\ resp = NoResp
    /\ ms = NoMS
    /\ FnOff
    /\ wk = None
    /\ acq = None
    /\ mig = NoWindowRun(Never)
    /\ store = State(None, None, None)
    /\ docs = Docs([id \in DocIDs |-> None], {})

NextWindow ==
    \/ IndexDoc
    \/ WindowStart
    \/ \E s \in Slices : WindowSliceDone(s)
    \/ \E s \in Slices : WindowSliceFail(s)
    \/ WindowJoin
    \/ WindowDelete
    \/ WindowFinalize
    \/ WindowTick

SpecWindow == InitWindow /\ [][NextWindow]_vars

\* the run saves its watermark in this step
SavesWatermark ==
    /\ mig.pc = "finalize"
    /\ store'.watermark = Watermark(mig.cutoffTime)

\* the timestamp is at or after the watermark wm, if there is one
NotBefore(ts, wm) == wm = None \/ ts >= wm.MigratedBefore

\* C32: whenever MigrateIndex saves a watermark W, every document with a
\* timestamp in [previous watermark, W) that was in the hot store when the run
\* started has been ingested into the cold store, by this run or an earlier
\* one; also for a resumed run and when the worker count changed.
C32_WatermarkCoversIngested ==
    [][SavesWatermark
       => \A id \in DocIDs :
             (/\ docs.hot[id] # None /\ docs.hot[id].old
              /\ NotBefore(docs.hot[id].ts, store.watermark)
              /\ docs.hot[id].ts < mig.cutoffTime)
             => id \in docs.cold]_vars

\* the same up to the second the queries are cut at: the documents older than
\* W without its sub-second part
C32_CoversUpToSecond ==
    [][SavesWatermark
       => \A id \in DocIDs :
             (/\ docs.hot[id] # None /\ docs.hot[id].old
              /\ NotBefore(docs.hot[id].ts, store.watermark)
              /\ docs.hot[id].ts < formatRFC3339(mig.cutoffTime))
             => id \in docs.cold]_vars

\* C33: with delete_after_migration enabled, no document is removed from the
\* hot store by the delete-by-query of MigrateIndex without having been
\* ingested into the cold store.
C33_DeletedWasIngested ==
    \A id \in DocIDs :
        docs.hot[id] # None /\ docs.hot[id].deleted => id \in docs.cold

\* MigrateIndex builds its queries in this step
BuildsQuery == mig.pc = "idle" /\ mig'.pc = "workers"

\* the range clause of the run under way
QueryRange(r) == rangeClause(r.fromTime, r.cutoffTime)

\* C36 as stated: when the previous run returned nil, the gte of the queries
\* of this run is the lt of the queries of that run; the first run has no gte.
C36_WindowsTile ==
    [][BuildsQuery
       => /\ mig.last = Never => ~QueryRange(mig').hasGte
          /\ mig.last.k = "returned"
               => /\ QueryRange(mig').hasGte
                  /\ QueryRange(mig').gte = mig.last.rc.lt]_vars

\* C36 for the runs that hand the watermark over: when the previous run
\* returned nil and had saved its watermark, and this run loaded it, the gte of
\* the queries of this run is the lt of the queries of that run, to the second;
\* the first run has no gte.
C36_WindowsTileWhenWatermarkHandedOver ==
    [][BuildsQuery
       => /\ mig.last = Never => ~QueryRange(mig').hasGte
          /\ (mig.last.k = "returned" /\ mig.last.saved /\ mig'.fromTime # None)
               => /\ QueryRange(mig').hasGte
                  /\ QueryRange(mig').gte = mig.last.rc.lt]_vars

\* a second run has started where the first, which had a cutoff with a
\* sub-second part, ended: its window is not empty
C36_Witness ==
    /\ mig.pc = "workers"
    /\ mig.last.k = "returned" /\ mig.last.saved /\ mig.fromTime # None
    /\ mig.fromTime.MigratedBefore # formatRFC3339(mig.fromTime.MigratedBefore)
    /\ QueryRange(mig).gte = mig.last.rc.lt
    /\ QueryRange(mig).gte < QueryRange(mig).lt

----------------------------------------------------------------------------
(* The lock record and the instance it belongs to *)

\* the deferred Release of m runs in this step
Releases(m) == mig[m].pc = "release" /\ mig'[m].pc = "returned"

\* C34: Release called by one migrator instance never removes a lock record
\* whose owner is another instance: after A's lock expired and B cleaned it up
\* and acquired the key, A's deferred Release leaves B's record in place.
C34_ReleaseLeavesOthersLock ==
    [][\A m \in Migrators :
          (Releases(m) /\ store.lock # None /\ store.lock.Owner # m)
          => store'.lock = store.lock]_vars

\* the conditional DELETE of c's cleanup is sent in this step
CleanupDeleteSent(c) == acq[c].pc = "delete" /\ acq'[c].pc = "create"

\* another Acquire call that read the same expired document holds the lock
OtherWinner(c) ==
    \E o \in Migrators \ {c} : acq[o].pc = "held" /\ acq[o].seen = acq[c].seen

CallReturned(c) == acq[c].pc \in {"idle", "held", "stopped"} /\ acq[c].ret # ""

----------------------------------------------------------------------------
(* An msearch entry routed BOTH whose hot search is refused *)

\* this step is an iteration of the entry loop of handleMSearch
HandlesEntry == pc = "ms_entry" /\ ms # NoMS /\ ms'.i = ms.i + 1

\* the calls the step made
CallsOfStep == {k \in 1..Len(calls') : k > Len(calls)}

\* C38: in an msearch, for every entry routed BOTH whose hot search fails
\* with 401 or 403, the element at the entry's position is an error object
\* and holds no hit and no total of the cold store, whatever the cold search
\* returned.
C38_RefusedEntryHidesCold ==
    [][(/\ HandlesEntry
        /\ routeForIndices(ms.entries[ms.i].Body, ms.entries[ms.i].Indices, now) = "both"
        /\ \E k \in CallsOfStep :
              calls'[k].to = "hot_search" /\ calls'[k].out \in {401, 403})
       => /\ ms'.out[ms.i].body = None
          /\ ms'.out[ms.i].status # 200]_vars

----------------------------------------------------------------------------
(* The cold search over several indices and the order of the answers *)

\* a cold-only search over more than one resolved index was answered from the
\* merged cold responses
MultiColdAnswered ==
    /\ Answered /\ IsSearch /\ target = "cold"
    /\ resp.via = "proxy" /\ resp.status = 200
    /\ Cardinality(CallsTo("cold_search")) > 1

\* the resolved index lists the request can have had
ResolvedLists ==
    {l \in {resolveColdIndices(req.indices, all) : all \in Catalogs} :
        Len(l) = Cardinality(CallsTo("cold_search"))}

\* the answer of the handler when the N responses arrive in index order
InIndexOrder(resolved) ==
    MergeSearchResponsesWithOptions(None,
        mergeArrivals(resolved, [i \in 1..Len(resolved) |-> 200],
                      [i \in 1..Len(resolved) |-> i], None).resp,
        plan.Merge)

\* C37: for a cold search over N > 1 resolved indices the response returned to
\* the client (total, relation, max_score and the hits of the returned page in
\* order) is the same for every order in which the N cold responses arrive,
\* hits of equal score included: it is the response of the arrival in index
\* order.
C37_ArrivalOrderIrrelevant ==
    MultiColdAnswered
    => \A resolved \in ResolvedLists :
          /\ resp.body.total = InIndexOrder(resolved).total
          /\ resp.body.maxScore = InIndexOrder(resolved).maxScore
          /\ resp.body.hits = InIndexOrder(resolved).hits

----------------------------------------------------------------------------
(* The two routing decisions of handleMSearch *)

CallsToCold == CallsTo("cold_search") \cup CallsTo("cold_list")

\* C40: in handleMSearch the routing decision of the up-front check is the
\* decision the entry loop dispatches by: in a request whose up-front check
\* concluded that no entry needs the cold tier, no entry is dispatched to the
\* cold store (COLD or BOTH), although each decision reads the current time.
C40_DispatchFollowsUpFrontCheck ==
    (IsMSearch /\ ms # NoMS /\ ~ms.needsCold)
    => CallsToCold = {}

----------------------------------------------------------------------------
(* The checkpoint shared by the slice workers *)

\* the slices that reached the mutex section, and those that returned nil
MarkedSlices == {s \in Slices : wk[s].ret \in {"nil", "saving checkpoint"}}
SucceededSlices == {s \in Slices : wk[s].ret = "nil"}

AnyOf(S) == CHOOSE x \in S : TRUE

RECURSIVE IngestedBy(_)
\* the documents the slices of S ingested
IngestedBy(S) ==
    IF S = {} THEN 0
    ELSE wk[AnyOf(S)].sliceMigrated + IngestedBy(S \ {AnyOf(S)})

\* the slices a checkpoint lists
ListedIn(cp) == {cp.SlicesDone[i] : i \in 1..Len(cp.SlicesDone)}

\* the checkpoint lists no slice twice and counts what its slices ingested
Consistent(cp) ==
    /\ Cardinality(ListedIn(cp)) = Len(cp.SlicesDone)
    /\ cp.Migrated = IngestedBy(ListedIn(cp))

\* wg.Wait() has returned
Joined == \A s \in Slices : wk[s].pc = "returned"

\* C39 as stated: after the join the checkpoint in memory and the last one
\* persisted list every slice that returned success exactly once, and migrated
\* is the value at load plus what those slices ingested.
C39_CountsSucceededSlices ==
    Joined
    => /\ SucceededSlices \subseteq ListedIn(mig.cp)
       /\ Cardinality(ListedIn(mig.cp)) = Len(mig.cp.SlicesDone)
       /\ mig.cp.Migrated = IngestedBy(SucceededSlices)
       /\ store.checkpoint # None
            => /\ SucceededSlices \subseteq ListedIn(store.checkpoint)
               /\ Cardinality(ListedIn(store.checkpoint)) = Len(store.checkpoint.SlicesDone)
               /\ store.checkpoint.Migrated = IngestedBy(SucceededSlices)

\* C39: concurrent slice workers never lose a checkpoint update.  For any
\* interleaving of the workers, the checkpoint in memory lists exactly the
\* slices that reached the mutex section, each once, and counts the documents
\* they ingested on top of the value at load; the last persisted checkpoint
\* lists every slice that returned success, lists no slice twice and none the
\* checkpoint in memory does not list, and counts the documents of the slices
\* it lists; nothing is persisted before a slice's save succeeds.
C39_NoCheckpointUpdateLost ==
    /\ ListedIn(mig.cp) = MarkedSlices
    /\ Consistent(mig.cp)
    /\ IF store.checkpoint = None THEN SucceededSlices = {}
       ELSE /\ SucceededSlices \subseteq ListedIn(store.checkpoint)
            /\ ListedIn(store.checkpoint) \subseteq MarkedSlices
            /\ Consistent(store.checkpoint)

\* both workers returned nil, the slice with the document second
C39_Witness ==
    /\ Joined
    /\ SucceededSlices = Slices
    /\ mig.cp.SlicesDone = <<1, 0>>
    /\ store.checkpoint = mig.cp
    /\ mig.cp.Migrated = MaxDocs

\* the save of the slice with the document failed, the other slice's save
\* persisted both
C39_FailedSaveWitness ==
    /\ Joined
    /\ wk[0].ret = "saving checkpoint" /\ wk[1].ret = "nil"
    /\ store.checkpoint # None
    /\ store.checkpoint.SlicesDone = <<0, 1>>
    /\ store.checkpoint.Migrated = MaxDocs

====
